---- MODULE Spec2Model ----
(***************************************************************************)
(* Model of the oligostore primer-binding core: the mismatch scanner, the  *)
(* binding-site locator, the reverse-complement transform and the          *)
(* window renderer.  Strings are sequences of one-character strings;       *)
(* Python's 0-based indices are kept and translated by Index and Slice.    *)
(***************************************************************************)
EXTENDS Integers, Sequences, FiniteSets, TLC

\* ---------------------------------------------------------------- bounds
MaxSeqLen == 3
MaxPrimerLen == 2
MaxMismatches == 1
MaxFileLen == 2
MaxRcLen == 4
MaxTemplateLen == 4
MaxFlank == 2
MaxRawLen == 3
MaxTasks == 2
MaxRows == 2
MaxSheetRows == 1
MaxReturned == 1

\* ------------------------------------------------------ Python primitives
Bases == {"A", "C", "G", "T"}

Min(a, b) == IF a < b THEN a ELSE b
Max(a, b) == IF a > b THEN a ELSE b

\* every sequence over S of length lo..hi
SeqsOf(S, lo, hi) == UNION {[1..n -> S] : n \in lo..hi}

\* s[i] with Python's 0-based and negative indices
Index(s, i) == IF i < 0 THEN s[Len(s) + i + 1] ELSE s[i + 1]

\* s[a:b] for a, b >= 0: both ends are clamped to the length
Slice(s, a, b) ==
    LET lo == Min(a, Len(s))
        hi == Min(b, Len(s))
    IN  IF hi <= lo THEN <<>> ELSE SubSeq(s, lo + 1, hi)

\* a value that may be None: None is the empty tuple, any other value v is <<v>>
None == <<>>
Some(v) == <<v>>
Val(o) == o[1]

\* the ascending list 0, 1, ..., n-1 that enumerate() walks
Range(n) == [i \in 1..n |-> i - 1]

\* c * n for a one-character string c
Repeat(c, n) == [i \in 1..n |-> c]

\* ------------------------------------------------------- primer_binding.py
\* the dataclass, its fields in declaration order
PrimerBindingHit(record_id, start, end, strand_, mismatches) ==
    <<record_id, start, end, strand_, mismatches>>
hit_record_id(hit) == hit[1]
hit_start(hit) == hit[2]
hit_end(hit) == hit[3]
hit_strand(hit) == hit[4]
hit_mismatches(hit) == hit[5]

\* faulty variant: the diagonal of primer position `offset` starts one base early
iter_mismatch_counts_shifted(seq, prim) ==
    LET primer_len == Len(prim)
        window_count == Len(seq) - primer_len + 1
        RECURSIVE loop(_, _)
        loop(offset, counts) ==
            IF offset >= primer_len THEN counts
            ELSE LET primer_base == Index(prim, offset)
                     diagonal == Slice(seq, Max(0, offset - 1), offset + window_count)
                 IN  loop(offset + 1,
                          [index \in 1..window_count |->
                              counts[index]
                              + IF index <= Len(diagonal) /\ diagonal[index] # primer_base
                                THEN 1 ELSE 0])
    IN  IF window_count <= 0 THEN <<>>
        ELSE loop(0, [index \in 1..window_count |-> 0])

\* the transposed accumulator: outer loop over primer positions, inner loop
\* over the diagonal sequence[offset : offset + window_count]
iter_mismatch_counts(seq, prim) ==
    LET primer_len == Len(prim)
        window_count == Len(seq) - primer_len + 1
        RECURSIVE loop(_, _)
        loop(offset, counts) ==
            IF offset >= primer_len THEN counts
            ELSE LET primer_base == Index(prim, offset)
                     diagonal == Slice(seq, offset, offset + window_count)
                 IN  loop(offset + 1,
                          [index \in 1..window_count |->
                              counts[index]
                              + IF index <= Len(diagonal) /\ diagonal[index] # primer_base
                                THEN 1 ELSE 0])
    IN  IF window_count <= 0 THEN <<>>
        ELSE loop(0, [index \in 1..window_count |-> 0])

\* faulty variant: the 3' rule compares the window's last base with the primer's first base
scan_sequence_first_base(seq, prim, strand_, max_mm, block_3prime) ==
    LET primer_len == Len(prim)
        counts == iter_mismatch_counts(seq, prim)
        kept(i) ==
            LET window_end == i + primer_len
            IN  /\ ~(block_3prime /\ Index(seq, window_end - 1) # Index(prim, 0))
                /\ counts[i + 1] <= max_mm
        accepted == SelectSeq(Range(Len(counts)), kept)
    IN  [n \in 1..Len(accepted) |->
            PrimerBindingHit("", accepted[n], accepted[n] + primer_len,
                             strand_, counts[accepted[n] + 1])]

\* faulty variant: the budget test is strict (mismatches < max_mismatches)
scan_sequence_strict(seq, prim, strand_, max_mm, block_3prime) ==
    LET primer_len == Len(prim)
        counts == iter_mismatch_counts(seq, prim)
        kept(i) ==
            LET window_end == i + primer_len
            IN  /\ ~(block_3prime /\ Index(seq, window_end - 1) # Index(prim, -1))
                /\ counts[i + 1] < max_mm
        accepted == SelectSeq(Range(Len(counts)), kept)
    IN  [n \in 1..Len(accepted) |->
            PrimerBindingHit("", accepted[n], accepted[n] + primer_len,
                             strand_, counts[accepted[n] + 1])]

\* faulty variant: hits are prepended, so the list comes out in descending offset order
scan_sequence_prepend(seq, prim, strand_, max_mm, block_3prime) ==
    LET primer_len == Len(prim)
        counts == iter_mismatch_counts(seq, prim)
        kept(i) ==
            LET window_end == i + primer_len
            IN  /\ ~(block_3prime /\ Index(seq, window_end - 1) # Index(prim, -1))
                /\ counts[i + 1] <= max_mm
        accepted == SelectSeq(Range(Len(counts)), kept)
    IN  [n \in 1..Len(accepted) |->
            LET i == accepted[Len(accepted) + 1 - n]
            IN  PrimerBindingHit("", i, i + primer_len, strand_, counts[i + 1])]

\* the loop of scan_sequence: offsets in ascending order, the 3' check first
\* (continue), then the budget check (append)
scan_sequence(seq, prim, strand_, max_mm, block_3prime) ==
    LET primer_len == Len(prim)
        counts == iter_mismatch_counts(seq, prim)
        kept(i) ==
            LET window_end == i + primer_len
            IN  /\ ~(block_3prime /\ Index(seq, window_end - 1) # Index(prim, -1))
                /\ counts[i + 1] <= max_mm
        accepted == SelectSeq(Range(Len(counts)), kept)
    IN  [n \in 1..Len(accepted) |->
            PrimerBindingHit("", accepted[n], accepted[n] + primer_len,
                             strand_, counts[accepted[n] + 1])]

\* iter_mismatch_counts, statement by statement: the buffer as allocated, and
\* one pass of the outer loop, which adds the diagonal of primer position
\* `offset` to the buffer
window_count_of(seq, prim) == Len(seq) - Len(prim) + 1

zero_counts(seq, prim) == Repeat(0, window_count_of(seq, prim))

add_diagonal(seq, prim, offset, counts) ==
    LET primer_base == Index(prim, offset)
        diagonal == Slice(seq, offset, offset + window_count_of(seq, prim))
    IN  [index \in 1..Len(counts) |->
            counts[index]
            + IF index <= Len(diagonal) /\ diagonal[index] # primer_base
              THEN 1 ELSE 0]

\* the loop of scan_sequence over the counts list(iter_mismatch_counts(...))
\* handed back
scan_counts(seq, prim, strand_, counts, max_mm, block_3prime) ==
    LET primer_len == Len(prim)
        kept(i) ==
            LET window_end == i + primer_len
            IN  /\ ~(block_3prime /\ Index(seq, window_end - 1) # Index(prim, -1))
                /\ counts[i + 1] <= max_mm
        accepted == SelectSeq(Range(Len(counts)), kept)
    IN  [n \in 1..Len(accepted) |->
            PrimerBindingHit("", accepted[n], accepted[n] + primer_len,
                             strand_, counts[accepted[n] + 1])]

\* -------------------------------------------------------- sequence_utils.py
\* str.upper on the letters the inputs are drawn from
UpperChar(c) ==
    CASE c = "a" -> "A" [] c = "c" -> "C" [] c = "g" -> "G" [] c = "t" -> "T"
      [] c = "n" -> "N" [] c = "x" -> "X"
      [] OTHER -> c
upper(s) == [i \in 1..Len(s) |-> UpperChar(s[i])]

\* str.lower, used to draw lower-case inputs
LowerChar(c) ==
    CASE c = "A" -> "a" [] c = "C" -> "c" [] c = "G" -> "g" [] c = "T" -> "t"
      [] OTHER -> c
lower(s) == [i \in 1..Len(s) |-> LowerChar(s[i])]

\* s[::-1]
Reversed(s) == [i \in 1..Len(s) |-> s[Len(s) + 1 - i]]

\* str.maketrans("ACGT", "TGCA"): any other character is left as it is
complement(c) ==
    CASE c = "A" -> "T" [] c = "C" -> "G" [] c = "G" -> "C" [] c = "T" -> "A"
      [] OTHER -> c

\* faulty variant: the complement is taken but the order is not reversed
reverse_complement_unreversed(s) == [i \in 1..Len(s) |-> complement(s[i])]

reverse_complement(s) == Reversed([i \in 1..Len(s) |-> complement(s[i])])

\* ------------------------------------------------------- sequence_loader.py
\* SeqIO.parse yields the file's records in source order for both supported
\* formats; any other tag raises when the loader is called
\* faulty variant: a file of unknown type is read as FASTA
load_sequences_default_fasta(file_records, file_type) ==
    IF file_type = "genbank" THEN [raised |-> FALSE, records |-> file_records]
    ELSE [raised |-> FALSE, records |-> file_records]

load_sequences(file_records, file_type) ==
    IF file_type = "fasta" THEN [raised |-> FALSE, records |-> file_records]
    ELSE IF file_type = "genbank" THEN [raised |-> FALSE, records |-> file_records]
    ELSE [raised |-> TRUE, records |-> <<>>]

\* ------------------------------------------- primer_binding.py, the locator
\* hit.record_id = record.id
Stamp(hs, id) ==
    [n \in 1..Len(hs) |->
        PrimerBindingHit(id, hit_start(hs[n]), hit_end(hs[n]),
                         hit_strand(hs[n]), hit_mismatches(hs[n]))]

\* faulty variant: the record's sequence is scanned as read, without upper()
analyze_primer_binding_raw_record(prim_sequence, seq_file, max_mm, block_3prime) ==
    LET prim == upper(prim_sequence)
        prim_rc == reverse_complement(prim)
        loaded == load_sequences(seq_file.records, seq_file.file_type)
        RECURSIVE loop(_, _)
        loop(r, res) ==
            IF r > Len(loaded.records) THEN res
            ELSE LET record == loaded.records[r]
                     seq == record.seq
                     fwd_hits == scan_sequence(seq, prim, "+", max_mm, block_3prime)
                     rev_hits == scan_sequence(seq, prim_rc, "-", max_mm, block_3prime)
                 IN  loop(r + 1, res \o Stamp(fwd_hits \o rev_hits, record.id))
    IN  IF loaded.raised THEN [raised |-> TRUE, hits |-> <<>>]
        ELSE [raised |-> FALSE, hits |-> loop(1, <<>>)]

\* faulty variant: the reverse-strand hits are appended before the forward-strand hits
analyze_primer_binding_rev_first(prim_sequence, seq_file, max_mm, block_3prime) ==
    LET prim == upper(prim_sequence)
        prim_rc == reverse_complement(prim)
        loaded == load_sequences(seq_file.records, seq_file.file_type)
        RECURSIVE loop(_, _)
        loop(r, res) ==
            IF r > Len(loaded.records) THEN res
            ELSE LET record == loaded.records[r]
                     seq == upper(record.seq)
                     fwd_hits == scan_sequence(seq, prim, "+", max_mm, block_3prime)
                     rev_hits == scan_sequence(seq, prim_rc, "-", max_mm, block_3prime)
                 IN  loop(r + 1, res \o Stamp(rev_hits \o fwd_hits, record.id))
    IN  IF loaded.raised THEN [raised |-> TRUE, hits |-> <<>>]
        ELSE [raised |-> FALSE, hits |-> loop(1, <<>>)]

\* faulty variant: the reverse strand is scanned with the primer itself
analyze_primer_binding_no_rc(prim_sequence, seq_file, max_mm, block_3prime) ==
    LET prim == upper(prim_sequence)
        prim_rc == reverse_complement(prim)
        loaded == load_sequences(seq_file.records, seq_file.file_type)
        RECURSIVE loop(_, _)
        loop(r, res) ==
            IF r > Len(loaded.records) THEN res
            ELSE LET record == loaded.records[r]
                     seq == upper(record.seq)
                     fwd_hits == scan_sequence(seq, prim, "+", max_mm, block_3prime)
                     rev_hits == scan_sequence(seq, prim, "-", max_mm, block_3prime)
                 IN  loop(r + 1, res \o Stamp(fwd_hits \o rev_hits, record.id))
    IN  IF loaded.raised THEN [raised |-> TRUE, hits |-> <<>>]
        ELSE [raised |-> FALSE, hits |-> loop(1, <<>>)]

\* faulty variant: a '-' hit at the site of a '+' hit of the record is dropped
analyze_primer_binding_dedup(prim_sequence, seq_file, max_mm, block_3prime) ==
    LET prim == upper(prim_sequence)
        prim_rc == reverse_complement(prim)
        loaded == load_sequences(seq_file.records, seq_file.file_type)
        RECURSIVE loop(_, _)
        loop(r, res) ==
            IF r > Len(loaded.records) THEN res
            ELSE LET record == loaded.records[r]
                     seq == upper(record.seq)
                     fwd_hits == scan_sequence(seq, prim, "+", max_mm, block_3prime)
                     rev_hits == scan_sequence(seq, prim_rc, "-", max_mm, block_3prime)
                     fresh(hit) ==
                         \A n \in 1..Len(fwd_hits) :
                             hit_start(fwd_hits[n]) # hit_start(hit)
                 IN  loop(r + 1,
                          res \o Stamp(fwd_hits \o SelectSeq(rev_hits, fresh), record.id))
    IN  IF loaded.raised THEN [raised |-> TRUE, hits |-> <<>>]
        ELSE [raised |-> FALSE, hits |-> loop(1, <<>>)]

analyze_primer_binding(prim_sequence, seq_file, max_mm, block_3prime) ==
    LET prim == upper(prim_sequence)
        prim_rc == reverse_complement(prim)
        loaded == load_sequences(seq_file.records, seq_file.file_type)
        RECURSIVE loop(_, _)
        loop(r, res) ==
            IF r > Len(loaded.records) THEN res
            ELSE LET record == loaded.records[r]
                     seq == upper(record.seq)
                     fwd_hits == scan_sequence(seq, prim, "+", max_mm, block_3prime)
                     rev_hits == scan_sequence(seq, prim_rc, "-", max_mm, block_3prime)
                 IN  loop(r + 1, res \o Stamp(fwd_hits \o rev_hits, record.id))
    IN  IF loaded.raised THEN [raised |-> TRUE, hits |-> <<>>]
        ELSE [raised |-> FALSE, hits |-> loop(1, <<>>)]

\* ------------------------------------------------------- primer_analysis.py
Ellipsis == <<".", ".", ".">>
NoBindingSite == <<"No binding site found.">>

\* faulty variant: the offset ignores the three characters of the left ellipsis
window_sequence_no_left_offset(template, position, match_len, flank_) ==
    IF position = None THEN <<None, None, None>>
    ELSE LET start == Max(0, Val(position) - flank_)
             end == Min(Len(template), Val(position) + match_len + flank_)
             cut == Slice(template, start, end)
             left == IF start > 0 THEN Ellipsis \o cut ELSE cut
             both == IF end < Len(template) THEN left \o Ellipsis ELSE left
             primer_start == Val(position) - start
         IN  <<Some(both), Some(primer_start), Some(match_len)>>

\* faulty variant: the ellipses mark the clamped bounds
window_sequence_clamped_ellipsis(template, position, match_len, flank_) ==
    IF position = None THEN <<None, None, None>>
    ELSE LET start == Max(0, Val(position) - flank_)
             end == Min(Len(template), Val(position) + match_len + flank_)
             cut == Slice(template, start, end)
             clamped_left == Val(position) - flank_ < 0
             clamped_right == Val(position) + match_len + flank_ > Len(template)
             left == IF clamped_left THEN Ellipsis \o cut ELSE cut
             left_offset == IF clamped_left THEN 3 ELSE 0
             both == IF clamped_right THEN left \o Ellipsis ELSE left
             primer_start == (Val(position) - start) + left_offset
         IN  <<Some(both), Some(primer_start), Some(match_len)>>

window_sequence(template, position, match_len, flank_) ==
    IF position = None THEN <<None, None, None>>
    ELSE LET start == Max(0, Val(position) - flank_)
             end == Min(Len(template), Val(position) + match_len + flank_)
             cut == Slice(template, start, end)
             left == IF start > 0 THEN Ellipsis \o cut ELSE cut
             left_offset == IF start > 0 THEN 3 ELSE 0
             both == IF end < Len(template) THEN left \o Ellipsis ELSE left
             primer_start == (Val(position) - start) + left_offset
         IN  <<Some(both), Some(primer_start), Some(match_len)>>

\* faulty variant: an empty line for a missing window
render_windowed_line_blank(seq_window, primer_start, match_len) ==
    IF seq_window = None THEN <<>>
    ELSE LET left == Repeat(".", Val(primer_start))
             right == Repeat(".", Len(Val(seq_window)) - Val(primer_start)
                                      - Val(match_len))
             primer_chars == Slice(Val(seq_window), Val(primer_start),
                                   Val(primer_start) + Val(match_len))
         IN  left \o primer_chars \o right

render_windowed_line(seq_window, primer_start, match_len) ==
    IF seq_window = None THEN NoBindingSite
    ELSE LET left == Repeat(".", Val(primer_start))
             right == Repeat(".", Len(Val(seq_window)) - Val(primer_start)
                                      - Val(match_len))
             primer_chars == Slice(Val(seq_window), Val(primer_start),
                                   Val(primer_start) + Val(match_len))
         IN  left \o primer_chars \o right

\* the characters \s matches among those the inputs are drawn from
Whitespace == {" ", "\t", "\n"}

\* re.sub(r"\s+", "", s)
strip_whitespace(s) == SelectSeq(s, LAMBDA c : c \notin Whitespace)

\* re.fullmatch(r"[...]+", s): one character at least, all of the class
fullmatch(class, s) == Len(s) >= 1 /\ \A i \in 1..Len(s) : s[i] \in class

\* re.sub(r"[...]", "", s)
strip_class(class, s) == SelectSeq(s, LAMBDA c : c \notin class)

\* the code point of a character, the order sorted() uses
CodePoint(c) ==
    CASE c = "\t" -> 9 [] c = "\n" -> 10 [] c = " " -> 32 [] c = "1" -> 49
      [] c = "A" -> 65 [] c = "C" -> 67 [] c = "G" -> 71 [] c = "N" -> 78
      [] c = "T" -> 84 [] c = "X" -> 88
      [] c = "a" -> 97 [] c = "c" -> 99 [] c = "g" -> 103 [] c = "n" -> 110
      [] c = "t" -> 116 [] c = "x" -> 120

\* set(s)
CharSet(s) == {s[i] : i \in 1..Len(s)}

\* sorted(S) for a set of characters
RECURSIVE sorted(_)
sorted(S) ==
    IF S = {} THEN <<>>
    ELSE LET least == CHOOSE c \in S : \A d \in S : CodePoint(c) <= CodePoint(d)
         IN  <<least>> \o sorted(S \ {least})

\* sep.join(items) for a list of characters
RECURSIVE join(_, _)
join(sep, items) ==
    IF items = <<>> THEN <<>>
    ELSE IF Len(items) = 1 THEN items
    ELSE <<Head(items)>> \o sep \o join(sep, Tail(items))

\* the two ways a cleaner ends: it returns a string, or it raises with a message
Returns(value) == [raised |-> FALSE, message |-> <<>>, value |-> value]
Raises(message) == [raised |-> TRUE, message |-> message, value |-> <<>>]

ACGTN == Bases \cup {"N"}
NoSequenceProvided == <<"No sequence provided.">>
InvalidCharacters == <<"Sequence contains invalid characters: ">>

\* faulty variant: the offending characters are listed as they occur
sanitize_sequence_unsorted(raw) ==
    IF raw = <<>> THEN Raises(NoSequenceProvided)
    ELSE LET cleaned == upper(strip_whitespace(raw))
         IN  IF ~fullmatch(ACGTN, cleaned)
             THEN Raises(InvalidCharacters \o
                         join(<<",", " ">>, strip_class(ACGTN, cleaned)))
             ELSE Returns(cleaned)

sanitize_sequence(raw) ==
    IF raw = <<>> THEN Raises(NoSequenceProvided)
    ELSE LET cleaned == upper(strip_whitespace(raw))
         IN  IF ~fullmatch(ACGTN, cleaned)
             THEN LET invalid_chars == sorted(CharSet(strip_class(ACGTN, cleaned)))
                  IN  Raises(InvalidCharacters \o join(<<",", " ">>, invalid_chars))
             ELSE Returns(cleaned)

render_binding_line(template, prim, position) ==
    IF position = None THEN NoBindingSite
    ELSE LET left == Repeat(".", Val(position))
             right == Repeat(".", Len(template) - Val(position) - Len(prim))
         IN  left \o prim \o right

\* str.find: the lowest index at which sub occurs in s, or -1
str_find(s, sub) ==
    LET RECURSIVE search(_)
        search(i) ==
            IF i + Len(sub) > Len(s) THEN -1
            ELSE IF Slice(s, i, i + Len(sub)) = sub THEN i
            ELSE search(i + 1)
    IN  search(0)

\* faulty variant: the highest index is returned (rfind)
find_binding_site_last(template, prim) ==
    LET RECURSIVE search(_)
        search(i) ==
            IF i < 0 THEN None
            ELSE IF Slice(template, i, i + Len(prim)) = prim THEN Some(i)
            ELSE search(i - 1)
    IN  search(Len(template) - Len(prim))

find_binding_site(template, prim) ==
    LET idx == str_find(template, prim)
    IN  IF idx # -1 THEN Some(idx) ELSE None

\* the markup highlight_binding puts around the bound characters
SpanOpen == <<"<span class='bg-primary text-primary-content font-bold px-1 rounded'>">>
SpanClose == <<"</span>">>

\* highlight_binding: the window is sliced three times; slicing None raises
\* TypeError
highlight_binding(seq_window, start, length) ==
    IF seq_window = None
    THEN Raises(<<"TypeError: 'NoneType' object is not subscriptable">>)
    ELSE LET before == Slice(Val(seq_window), 0, Val(start))
             bound == Slice(Val(seq_window), Val(start), Val(start) + Val(length))
             after == Slice(Val(seq_window), Val(start) + Val(length),
                            Len(Val(seq_window)))
         IN  Returns(before \o SpanOpen \o bound \o SpanClose \o after)

\* what design_primers returned: the three counts, each absent or a number,
\* and the sequences of the left and right primers by index
Primer3Results(pair_n, left_n, right_n, left_seqs, right_seqs) ==
    [PRIMER_PAIR_NUM_RETURNED |-> pair_n, PRIMER_LEFT_NUM_RETURNED |-> left_n,
     PRIMER_RIGHT_NUM_RETURNED |-> right_n, PRIMER_LEFT_SEQUENCE |-> left_seqs,
     PRIMER_RIGHT_SEQUENCE |-> right_seqs]

\* results.get(key, 0) and results.get(f"..._{i}_SEQUENCE")
get_count(count) == IF count = None THEN 0 ELSE Val(count)
get_indexed(values, i) == IF i + 1 <= Len(values) THEN Some(values[i + 1]) ELSE None

\* the candidate entries of one kind, for i in range(n)
pair_entries(engine, n) ==
    [k \in 1..n |->
        [mode |-> "PAIR",
         left_seq |-> get_indexed(engine.PRIMER_LEFT_SEQUENCE, k - 1),
         right_seq |-> get_indexed(engine.PRIMER_RIGHT_SEQUENCE, k - 1),
         left_tm |-> <<"PRIMER_LEFT_TM", k - 1>>,
         right_tm |-> <<"PRIMER_RIGHT_TM", k - 1>>,
         product_size |-> <<"PRIMER_PAIR_PRODUCT_SIZE", k - 1>>,
         penalty |-> <<"PRIMER_PAIR_PENALTY", k - 1>>]]

single_entries(tag, sequences, n) ==
    [k \in 1..n |->
        [mode |-> tag,
         seq |-> get_indexed(sequences, k - 1),
         tm |-> <<"PRIMER_" \o tag \o "_TM", k - 1>>,
         penalty |-> <<"PRIMER_" \o tag \o "_PENALTY", k - 1>>]]

\* faulty variant: the left primers are looked at before the pairs
analyze_sequence_left_first(template, engine) ==
    LET left_n == get_count(engine.PRIMER_LEFT_NUM_RETURNED)
        right_n == get_count(engine.PRIMER_RIGHT_NUM_RETURNED)
        pair_n == get_count(engine.PRIMER_PAIR_NUM_RETURNED)
    IN  IF left_n > 0
        THEN [primer_list |-> single_entries("LEFT", engine.PRIMER_LEFT_SEQUENCE, left_n),
              results |-> engine, mode |-> "LEFT"]
        ELSE IF pair_n > 0
        THEN [primer_list |-> pair_entries(engine, pair_n), results |-> engine,
              mode |-> "PAIR"]
        ELSE IF right_n > 0
        THEN [primer_list |-> single_entries("RIGHT", engine.PRIMER_RIGHT_SEQUENCE, right_n),
              results |-> engine, mode |-> "RIGHT"]
        ELSE [primer_list |-> <<>>, results |-> engine, mode |-> "NONE"]

\* analyze_sequence: the engine is called on the template, and its result is
\* turned into the candidate list of one kind
analyze_sequence(template, engine) ==
    LET left_n == get_count(engine.PRIMER_LEFT_NUM_RETURNED)
        right_n == get_count(engine.PRIMER_RIGHT_NUM_RETURNED)
        pair_n == get_count(engine.PRIMER_PAIR_NUM_RETURNED)
    IN  IF pair_n > 0
        THEN [primer_list |-> pair_entries(engine, pair_n), results |-> engine,
              mode |-> "PAIR"]
        ELSE IF left_n > 0
        THEN [primer_list |-> single_entries("LEFT", engine.PRIMER_LEFT_SEQUENCE, left_n),
              results |-> engine, mode |-> "LEFT"]
        ELSE IF right_n > 0
        THEN [primer_list |-> single_entries("RIGHT", engine.PRIMER_RIGHT_SEQUENCE, right_n),
              results |-> engine, mode |-> "RIGHT"]
        ELSE [primer_list |-> <<>>, results |-> engine, mode |-> "NONE"]

\* the flank analyze_sequence_view shows around a binding site
flank_size == 25

NoneAttribute == <<"AttributeError: 'NoneType' object has no attribute 'upper'">>

\* the body of the loop of analyze_sequence_view for a PAIR entry
annotate_pair(template, p) ==
    IF p.left_seq = None \/ p.right_seq = None THEN Raises(NoneAttribute)
    ELSE
    LET fwd == upper(Val(p.left_seq))
        rev == upper(Val(p.right_seq))
        rev_rc == reverse_complement(rev)
        fwd_pos == find_binding_site(template, fwd)
        rev_pos == find_binding_site(template, rev_rc)
        fwd_window == window_sequence(template, fwd_pos, Len(fwd), flank_size)
        rev_window == window_sequence(template, rev_pos, Len(rev_rc), flank_size)
        forward_window == highlight_binding(fwd_window[1], fwd_window[2], fwd_window[3])
        reverse_window == highlight_binding(rev_window[1], rev_window[2], rev_window[3])
        product_sequence == Slice(template, Val(fwd_pos), Val(rev_pos) + Len(rev))
    IN  IF forward_window.raised THEN Raises(forward_window.message)
        ELSE IF reverse_window.raised THEN Raises(reverse_window.message)
        ELSE Returns([mode |-> p.mode, left_seq |-> p.left_seq,
                      right_seq |-> p.right_seq, left_tm |-> p.left_tm,
                      right_tm |-> p.right_tm, product_size |-> p.product_size,
                      penalty |-> p.penalty,
                      forward_window |-> forward_window.value,
                      reverse_window |-> reverse_window.value,
                      forward_window_line |->
                          render_windowed_line(fwd_window[1], fwd_window[2], fwd_window[3]),
                      reverse_window_line |->
                          render_windowed_line(rev_window[1], rev_window[2], rev_window[3]),
                      forward_pos |-> fwd_pos, reverse_pos |-> rev_pos,
                      product_sequence |-> product_sequence,
                      product_length |-> Len(product_sequence)])

\* the body of the loop for a LEFT or RIGHT entry
annotate_single(template, p) ==
    IF p.seq = None THEN Raises(NoneAttribute)
    ELSE
    LET prim == IF p.mode = "RIGHT" THEN reverse_complement(upper(Val(p.seq)))
                ELSE upper(Val(p.seq))
        position == find_binding_site(template, prim)
        found == window_sequence(template, position, Len(prim), flank_size)
        highlighted == highlight_binding(found[1], found[2], found[3])
    IN  IF highlighted.raised THEN Raises(highlighted.message)
        ELSE Returns([mode |-> p.mode, seq |-> p.seq, tm |-> p.tm,
                      penalty |-> p.penalty,
                      window |-> highlighted.value,
                      window_line |-> render_windowed_line(found[1], found[2], found[3]),
                      pos |-> position])

\* the loop over primer_list: the first exception ends it
RECURSIVE annotate(_, _)
annotate(template, entries) ==
    IF entries = <<>> THEN Returns(<<>>)
    ELSE LET p == Head(entries)
             first == IF p.mode = "PAIR" THEN annotate_pair(template, p)
                      ELSE annotate_single(template, p)
             rest == annotate(template, Tail(entries))
         IN  IF first.raised THEN Raises(first.message)
             ELSE IF rest.raised THEN Raises(rest.message)
             ELSE Returns(<<first.value>> \o rest.value)

\* ---------------------------------------------------------------- forms.py
FormMaxLength == 60

\* the messages of the two ValidationErrors
TooLong(max_length) ==
    <<"Sequence must be ", ToString(max_length), " bases or fewer.">>
MayOnlyContain(allow_n) ==
    <<"Sequence may only contain the characters A, C, G, T">>
        \o (IF allow_n THEN <<" or N">> ELSE <<>>)
        \o <<" (no spaces or numbers).">>

clean_sequence_value(value, allow_n, max_length) ==
    LET cleaned == upper(strip_whitespace(value))
        pattern == IF allow_n THEN ACGTN ELSE Bases
    IN  IF max_length # None /\ Len(cleaned) > Val(max_length)
        THEN Raises(TooLong(Val(max_length)))
        ELSE IF ~fullmatch(pattern, cleaned)
        THEN Raises(MayOnlyContain(allow_n))
        ELSE Returns(cleaned)

clean_optional_sequence_value(value, allow_n) ==
    LET cleaned == upper(strip_whitespace(value))
    IN  IF cleaned = <<>> THEN Returns(<<>>)
        ELSE clean_sequence_value(cleaned, allow_n, None)

\* ---------------------------------------------------------------- tasks.py
\* faulty variant: start and end change places
_serialize_binding_hits_swapped(hs) ==
    [n \in 1..Len(hs) |->
        [record_id |-> hit_record_id(hs[n]),
         start |-> hit_end(hs[n]),
         end |-> hit_start(hs[n]),
         strand |-> hit_strand(hs[n]),
         mismatches |-> hit_mismatches(hs[n])]]

_serialize_binding_hits(hs) ==
    [n \in 1..Len(hs) |->
        [record_id |-> hit_record_id(hs[n]),
         start |-> hit_start(hs[n]),
         end |-> hit_end(hs[n]),
         strand |-> hit_strand(hs[n]),
         mismatches |-> hit_mismatches(hs[n])]]

\* ------------------------------------------- analyze_primer and models.py
\* round(n / d, 2) in hundredths, half to even
round2(n, d) ==
    LET q == (100 * n) \div d
        r == (100 * n) % d
    IN  IF 2 * r < d THEN q
        ELSE IF 2 * r > d THEN q + 1
        ELSE IF q % 2 = 0 THEN q ELSE q + 1

\* s.count("G") + s.count("C")
gc_count(s) == Len(SelectSeq(s, LAMBDA c : c \in {"G", "C"}))

\* analyze_primer: the GC fraction is computed here; the melting temperature
\* and the two free energies come from the thermodynamics library and are
\* kept as terms over the upper-cased sequence. The empty sequence raises
\* (the library, or the division by len(seq)).
analyze_primer(s) ==
    LET upper_seq == upper(s)
    IN  IF upper_seq = <<>> THEN Raises(<<"division by zero">>)
        ELSE Returns([gc_content |-> round2(gc_count(upper_seq), Len(upper_seq)),
                      tm |-> <<"calcTm", upper_seq>>,
                      hairpin_dg |-> <<"calc_hairpin", upper_seq>>,
                      self_dimer_dg |-> <<"calc_homodimer", upper_seq>>])

\* a Primer instance: the sequence as given, the owner (no user until it is
\* set), and the derived columns, each None until it is set (names and
\* overhangs are left out)
NoUser == ""

Primer(sequence_) ==
    [sequence |-> sequence_, creator |-> NoUser, users |-> {},
     length |-> None, gc_content |-> None, tm |-> None,
     hairpin_dg |-> None, self_dimer_dg |-> None]

\* the five assignments that follow analyze_primer in the views and in
\* create_with_analysis
with_analysis(row, analysis) ==
    [row EXCEPT !.length = Some(Len(row.sequence)),
                !.gc_content = Some(analysis.gc_content),
                !.tm = Some(analysis.tm),
                !.hairpin_dg = Some(analysis.hairpin_dg),
                !.self_dimer_dg = Some(analysis.self_dimer_dg)]

\* a PrimerPair instance
PrimerPair(forward_id, reverse_id) ==
    [forward_primer |-> forward_id, reverse_primer |-> reverse_id,
     creator |-> NoUser, users |-> {}]

\* assign_creator: obj.creator = user; obj.save(); obj.users.add(user); the
\* object is returned. Here: the row as it is written by that save.
assign_creator(row, user) == [row EXCEPT !.creator = user, !.users = {user}]

\* Model.save() of a new row: the table with the row appended, its id the
\* new length; Model.save() of a stored row: the row replaced
insert(table, row) == Append(table, Some(row))
update(table, id, row) == [table EXCEPT ![id] = Some(row)]

\* Primer.create_with_analysis: the analysis first, then the row saved with
\* every derived column set and the user added to its access set
create_with_analysis(table, sequence_, user) ==
    LET analysis == analyze_primer(sequence_)
    IN  IF analysis.raised THEN Raises(analysis.message)
        ELSE Returns(insert(table,
                            [with_analysis(Primer(sequence_), analysis.value)
                                EXCEPT !.creator = user, !.users = {user}]))

\* str.strip()
RECURSIVE lstrip(_)
lstrip(s) == IF s # <<>> /\ Head(s) \in Whitespace THEN lstrip(Tail(s)) ELSE s
str_strip(s) == Reversed(lstrip(Reversed(lstrip(s))))

\* ------------------------------------------------------------------ state
VARIABLES
    pc,                     \* position of the call under way
    sequence,               \* scan_sequence: the template
    primer,                 \* scan_sequence: the primer handed to the scanner
    strand,                 \* scan_sequence: the strand label
    max_mismatches,         \* the mismatch budget
    block_3prime_mismatch,  \* the 3' rule switch
    mismatch_counts,        \* what iter_mismatch_counts yielded
    hits,                   \* what scan_sequence returned
    primer_sequence,        \* analyze_primer_binding: the primer as passed in
    sequence_file,          \* analyze_primer_binding: the file and its records
    results,                \* what analyze_primer_binding returned
    payload,                \* what _serialize_binding_hits returned
    seq,                    \* reverse_complement / window_sequence: the argument
    complemented,           \* reverse_complement(seq)
    restored,               \* reverse_complement(complemented)
    pos,                    \* window_sequence: the match position, or None
    primer_len,             \* window_sequence: the match length
    flank,                  \* window_sequence: the flank
    window,                 \* what window_sequence returned
    line,                   \* what render_windowed_line returned
    binding_line,           \* what render_binding_line returned
    raw,                    \* the cleaners: the text as typed
    allow_n,                \* clean_sequence_value: whether N is allowed
    max_length,             \* clean_sequence_value: the length limit, or None
    sanitized,              \* what sanitize_sequence(raw) did
    resanitized,            \* what sanitize_sequence did on its own output
    required_value,         \* what clean_sequence_value(raw) did
    optional_value,         \* what clean_optional_sequence_value(raw) did
    primers,                \* the Primer table: id -> row, or None once deleted
    files,                  \* the SequenceFile table: id -> row, or None
    binding_results,        \* the PrimerBindingResult table: a set of rows
    pairs,                  \* the PrimerPair table: id -> row, or None
    tasks,                  \* the submitted tasks, by task id
    request,                \* the request handled last
    response,               \* the response it got
    frames,                 \* analyze_primer_binding: the locals of each invocation
    mismatch_buffers,       \* the lists made by `[0] * window_count`
    hit_lists,              \* the lists made by `results = []`
    binding_site,           \* what find_binding_site returned
    request_method,         \* analyze_sequence_view: the method of the request
    form_valid,             \* analyze_sequence_view: whether the form validated
    raw_seq,                \* analyze_sequence_view: the posted sequence
    primer_sides,           \* analyze_sequence_view: the sides asked for
    raw_results,            \* what design_primers returned
    primer_list,            \* the candidate list
    mode,                   \* the mode tag of the list
    rendered                \* what analyze_sequence_view did

scanVars == <<sequence, primer, strand, mismatch_counts, hits>>
locVars == <<primer_sequence, sequence_file, results, payload>>
rcVars == <<complemented, restored>>
winVars == <<pos, primer_len, flank, window, line, binding_line>>
taskVars == <<primers, files, binding_results, pairs, tasks, request, response>>
invVars == <<frames, mismatch_buffers, hit_lists>>
findVars == <<binding_site>>
designVars == <<request_method, form_valid, raw_seq, primer_sides, raw_results,
               primer_list, mode, rendered>>
appVars == <<findVars, designVars>>
sanVars == <<raw, allow_n, max_length, sanitized, resanitized, required_value,
            optional_value>>

vars == <<pc, max_mismatches, block_3prime_mismatch, scanVars, locVars, seq,
          rcVars, winVars, sanVars, taskVars, invVars, appVars>>

\* the variables of the components a specification does not run
ScanIdle ==
    /\ sequence = <<>>
    /\ primer = <<>>
    /\ strand = "+"
    /\ mismatch_counts = <<>>
    /\ hits = <<>>

LocIdle ==
    /\ primer_sequence = <<>>
    /\ sequence_file = [file_type |-> "fasta", records |-> <<>>]
    /\ results = <<>>
    /\ payload = <<>>

RcIdle ==
    /\ complemented = <<>>
    /\ restored = <<>>

WinIdle ==
    /\ pos = None
    /\ primer_len = 0
    /\ flank = 0
    /\ window = <<None, None, None>>
    /\ line = <<>>
    /\ binding_line = <<>>

SanIdle ==
    /\ raw = <<>>
    /\ allow_n = TRUE
    /\ max_length = None
    /\ sanitized = Returns(<<>>)
    /\ resanitized = Returns(<<>>)
    /\ required_value = Returns(<<>>)
    /\ optional_value = Returns(<<>>)

TaskIdle ==
    /\ primers = <<>>
    /\ files = <<>>
    /\ binding_results = {}
    /\ pairs = <<>>
    /\ tasks = <<>>
    /\ request = [view |-> "none"]
    /\ response = [status |-> 0]

InvIdle ==
    /\ frames = <<>>
    /\ mismatch_buffers = <<>>
    /\ hit_lists = <<>>

FindIdle == binding_site = None

DesignIdle ==
    /\ request_method = "GET"
    /\ form_valid = TRUE
    /\ raw_seq = <<>>
    /\ primer_sides = {}
    /\ raw_results = Primer3Results(None, None, None, <<>>, <<>>)
    /\ primer_list = <<>>
    /\ mode = ""
    /\ rendered = None

AppIdle == FindIdle /\ DesignIdle

\* the knobs of the scanner, for the components that have none
KnobsIdle ==
    /\ max_mismatches = 0
    /\ block_3prime_mismatch = TRUE

\* ------------------------------------------------ the scanner, called alone
ScanInit ==
    /\ pc = "input"
    /\ sequence \in SeqsOf(Bases, 0, MaxSeqLen)
    /\ primer \in SeqsOf(Bases, 1, MaxPrimerLen)
    /\ strand \in {"+", "-"}
    /\ max_mismatches \in 0..MaxMismatches
    /\ block_3prime_mismatch \in BOOLEAN
    /\ mismatch_counts = <<>>
    /\ hits = <<>>
    /\ LocIdle
    /\ seq = <<>> /\ RcIdle /\ WinIdle /\ SanIdle /\ TaskIdle /\ InvIdle /\ AppIdle

IterMismatchCounts ==
    /\ pc = "input"
    /\ mismatch_counts' = iter_mismatch_counts(sequence, primer)
    /\ pc' = "counted"
    /\ UNCHANGED <<appVars, invVars, taskVars, sanVars, sequence, primer, strand, max_mismatches,
                   block_3prime_mismatch, hits, locVars, seq, rcVars, winVars>>

ScanSequence ==
    /\ pc = "counted"
    /\ hits' = scan_sequence(sequence, primer, strand, max_mismatches,
                             block_3prime_mismatch)
    /\ pc' = "scanned"
    /\ UNCHANGED <<appVars, invVars, taskVars, sanVars, sequence, primer, strand, max_mismatches,
                   block_3prime_mismatch, mismatch_counts, locVars,
                   seq, rcVars, winVars>>

ScanNext == IterMismatchCounts \/ ScanSequence

SpecScan == ScanInit /\ [][ScanNext]_vars

\* ------------------------------- the exact-match locator beside the scanner
\* the calls of the repository's test: ACC and GGG against AAACCC
FindTestCalls ==
    /\ sequence = <<"A", "A", "A", "C", "C", "C">>
    /\ primer \in {<<"A", "C", "C">>, <<"G", "G", "G">>}

FindInit ==
    /\ pc = "input"
    /\ \/ /\ sequence \in SeqsOf(Bases, 0, MaxSeqLen)
          /\ primer \in SeqsOf(Bases, 1, MaxPrimerLen)
       \/ FindTestCalls
    /\ strand = "+"
    /\ max_mismatches = 0
    /\ block_3prime_mismatch \in BOOLEAN
    /\ mismatch_counts = <<>>
    /\ hits = <<>>
    /\ binding_site = None
    /\ DesignIdle
    /\ LocIdle
    /\ seq = <<>> /\ RcIdle /\ WinIdle /\ SanIdle /\ TaskIdle /\ InvIdle

FindBindingSite ==
    /\ pc = "input"
    /\ binding_site' = find_binding_site(sequence, primer)
    /\ pc' = "found"
    /\ UNCHANGED <<designVars, invVars, taskVars, sanVars, max_mismatches, block_3prime_mismatch,
                   scanVars, locVars, seq, rcVars, winVars>>

\* the scanner on the same template and primer, exact matches only
ScanExact ==
    /\ pc = "found"
    /\ hits' = scan_sequence(sequence, primer, strand, max_mismatches,
                             block_3prime_mismatch)
    /\ pc' = "compared"
    /\ UNCHANGED <<appVars, invVars, taskVars, sanVars, sequence, primer, strand,
                   max_mismatches, block_3prime_mismatch, mismatch_counts, locVars,
                   seq, rcVars, winVars>>

FindNext == FindBindingSite \/ ScanExact

SpecFind == FindInit /\ [][FindNext]_vars

\* ------------------------------------------------ the locator and the task
RecordIds == <<"seq1", "seq2", "seq3", "seq4", "seq5", "seq6">>
FileTypes == {"fasta", "genbank", "txt", "gb", "FASTA"}

\* the ways to cut a file of `total` bases into non-empty records
RECURSIVE Cuts(_)
Cuts(total) ==
    IF total = 0 THEN {<<>>}
    ELSE UNION {{<<first>> \o rest : rest \in Cuts(total - first)} : first \in 1..total}

\* the record sequences of a file holding `bases`, cut at `cut`
RECURSIVE Split(_, _)
Split(bases, cut) ==
    IF cut = <<>> THEN <<>>
    ELSE <<SubSeq(bases, 1, cut[1])>> \o
         Split(SubSeq(bases, cut[1] + 1, Len(bases)), Tail(cut))

\* the files holding `bases`: any cut into records in source order, each
\* record with its own identifier
FilesHolding(bases) ==
    {[file_type |-> "fasta",
      records |-> [r \in 1..Len(cut) |->
                      [id |-> RecordIds[r], seq |-> Split(bases, cut)[r]]]] :
        cut \in Cuts(Len(bases))}

\* every upper-case FASTA file of at most MaxFileLen bases
SequenceFiles == UNION {FilesHolding(bases) : bases \in SeqsOf(Bases, 0, MaxFileLen)}

\* every non-empty upper-case primer of at most MaxPrimerLen bases
PrimerSequences == SeqsOf(Bases, 1, MaxPrimerLen)

\* the same file written in lower case, or declared with another type
LowerCased(file) ==
    [file EXCEPT !.records =
        [r \in 1..Len(file.records) |->
            [file.records[r] EXCEPT !.seq = lower(file.records[r].seq)]]]
Typed(file, t) == [file EXCEPT !.file_type = t]

\* max_mismatches as the views and the task pass it; block_3prime_mismatch is
\* left at its default
ViewMaxMismatches == 2

\* the calls: every knob setting on upper-case FASTA input, and every case and
\* every file type at the knobs of the views
KnobCalls ==
    /\ primer_sequence \in PrimerSequences
    /\ sequence_file \in SequenceFiles
    /\ max_mismatches \in 0..MaxMismatches
    /\ block_3prime_mismatch \in BOOLEAN

CaseCalls ==
    /\ \E p \in PrimerSequences : primer_sequence \in {p, lower(p)}
    /\ \E f \in SequenceFiles : sequence_file \in {f, LowerCased(f)}
    /\ max_mismatches = ViewMaxMismatches
    /\ block_3prime_mismatch = TRUE

TypeCalls ==
    /\ primer_sequence \in PrimerSequences
    /\ \E f \in SequenceFiles : sequence_file \in {Typed(f, t) : t \in FileTypes}
    /\ max_mismatches = ViewMaxMismatches
    /\ block_3prime_mismatch = TRUE

\* the call of the repository's test: AAA against the one-record file AAACCC
AAACCC == [file_type |-> "fasta",
           records |-> <<[id |-> "seq1", seq |-> <<"A", "A", "A", "C", "C", "C">>]>>]

TestCall ==
    /\ primer_sequence = <<"A", "A", "A">>
    /\ sequence_file = AAACCC
    /\ max_mismatches = ViewMaxMismatches
    /\ block_3prime_mismatch = TRUE

LocInit ==
    /\ pc = "input"
    /\ KnobCalls \/ CaseCalls \/ TypeCalls \/ TestCall
    /\ results = <<>>
    /\ payload = <<>>
    /\ ScanIdle
    /\ seq = <<>> /\ RcIdle /\ WinIdle /\ SanIdle /\ TaskIdle /\ InvIdle /\ AppIdle

\* the call of analyze_primer_binding: it returns the hit list, or the
\* loader's ValueError escapes it
AnalyzePrimerBinding ==
    /\ pc = "input"
    /\ LET out == analyze_primer_binding(primer_sequence, sequence_file,
                                         max_mismatches, block_3prime_mismatch)
       IN  /\ pc' = IF out.raised THEN "raised" ELSE "returned"
           /\ results' = out.hits
    /\ UNCHANGED <<appVars, invVars, taskVars, sanVars, max_mismatches, block_3prime_mismatch, scanVars,
                   primer_sequence, sequence_file, payload, seq, rcVars, winVars>>

\* the task's return statement
SerializeBindingHits ==
    /\ pc = "returned"
    /\ payload' = _serialize_binding_hits(results)
    /\ pc' = "serialized"
    /\ UNCHANGED <<appVars, invVars, taskVars, sanVars, max_mismatches, block_3prime_mismatch, scanVars,
                   primer_sequence, sequence_file, results, seq, rcVars, winVars>>

LocNext == AnalyzePrimerBinding \/ SerializeBindingHits

SpecLocate == LocInit /\ [][LocNext]_vars

\* the locator on files whose records need not have identifiers of their
\* own: SeqIO.parse yields every record of the file, repeated headers included
SameIds(file) ==
    [file EXCEPT !.records =
        [r \in 1..Len(file.records) |-> [file.records[r] EXCEPT !.id = RecordIds[1]]]]

RepeatedIdCalls ==
    /\ primer_sequence \in PrimerSequences
    /\ \E f \in SequenceFiles : Len(f.records) > 1 /\ sequence_file = SameIds(f)
    /\ max_mismatches \in 0..MaxMismatches
    /\ block_3prime_mismatch \in BOOLEAN

RecordsInit ==
    /\ pc = "input"
    /\ KnobCalls \/ RepeatedIdCalls
    /\ results = <<>>
    /\ payload = <<>>
    /\ ScanIdle
    /\ seq = <<>> /\ RcIdle /\ WinIdle /\ SanIdle /\ TaskIdle /\ InvIdle /\ AppIdle

SpecRecords == RecordsInit /\ [][LocNext]_vars

\* ---------------------------------------- the reverse-complement transform
RcInit ==
    /\ pc = "input"
    /\ seq \in SeqsOf(Bases, 0, MaxRcLen)
    /\ RcIdle
    /\ KnobsIdle /\ ScanIdle /\ LocIdle /\ WinIdle /\ SanIdle /\ TaskIdle /\ InvIdle /\ AppIdle

ReverseComplement ==
    /\ pc = "input"
    /\ complemented' = reverse_complement(seq)
    /\ pc' = "once"
    /\ UNCHANGED <<appVars, invVars, taskVars, sanVars, max_mismatches, block_3prime_mismatch, scanVars, locVars,
                   seq, restored, winVars>>

ReverseComplementAgain ==
    /\ pc = "once"
    /\ restored' = reverse_complement(complemented)
    /\ pc' = "twice"
    /\ UNCHANGED <<appVars, invVars, taskVars, sanVars, max_mismatches, block_3prime_mismatch, scanVars, locVars,
                   seq, complemented, winVars>>

RcNext == ReverseComplement \/ ReverseComplementAgain

SpecRc == RcInit /\ [][RcNext]_vars

\* ------------------------------------------------------ the window renderer
\* a match inside the template, or no match
WindowCalls ==
    {<<t, p, l>> \in SeqsOf(Bases, 0, MaxTemplateLen)
                        \X ({None} \cup {Some(i) : i \in 0..MaxTemplateLen})
                        \X (0..MaxTemplateLen) :
        p # None => Val(p) + l <= Len(t)}

\* the call of the repository's test
ACGTACGTAC == <<"A", "C", "G", "T", "A", "C", "G", "T", "A", "C">>

WinTestCall ==
    /\ seq = ACGTACGTAC
    /\ pos = Some(3)
    /\ primer_len = 3
    /\ flank = 2

WinInit ==
    /\ pc = "input"
    /\ \/ /\ \E call \in WindowCalls :
                /\ seq = call[1]
                /\ pos = call[2]
                /\ primer_len = call[3]
          /\ flank \in 0..MaxFlank
       \/ WinTestCall
    /\ window = <<None, None, None>>
    /\ line = <<>>
    /\ binding_line = <<>>
    /\ KnobsIdle /\ ScanIdle /\ LocIdle /\ RcIdle /\ SanIdle /\ TaskIdle /\ InvIdle /\ AppIdle

WindowSequence ==
    /\ pc = "input"
    /\ window' = window_sequence(seq, pos, primer_len, flank)
    /\ pc' = "windowed"
    /\ UNCHANGED <<appVars, invVars, taskVars, sanVars, max_mismatches, block_3prime_mismatch, scanVars, locVars,
                   seq, rcVars, pos, primer_len, flank, line, binding_line>>

RenderWindowedLine ==
    /\ pc = "windowed"
    /\ line' = render_windowed_line(window[1], window[2], window[3])
    /\ pc' = "rendered"
    /\ UNCHANGED <<appVars, invVars, taskVars, sanVars, max_mismatches, block_3prime_mismatch, scanVars, locVars,
                   seq, rcVars, pos, primer_len, flank, window, binding_line>>

\* the primer drawn over the whole template: the matched bases, or any primer
\* of the given length when there is no match
RenderBindingLine ==
    /\ pc = "rendered"
    /\ \E prim \in (IF pos = None
                     THEN SeqsOf(Bases, primer_len, primer_len)
                     ELSE {Slice(seq, Val(pos), Val(pos) + primer_len)}) :
          binding_line' = render_binding_line(seq, prim, pos)
    /\ pc' = "drawn"
    /\ UNCHANGED <<appVars, invVars, taskVars, sanVars, max_mismatches, block_3prime_mismatch, scanVars, locVars,
                   seq, rcVars, pos, primer_len, flank, window, line>>

WinNext == WindowSequence \/ RenderWindowedLine \/ RenderBindingLine

SpecWindow == WinInit /\ [][WinNext]_vars

\* ------------------------------------------------------ the sequence cleaners
\* the characters typed: blanks, bases in both cases, N, and characters outside
\* the alphabet
Typed_Chars == {" ", "\n", "a", "A", "N", "x", "X", "1"}

RawTexts == SeqsOf(Typed_Chars, 0, MaxRawLen)

\* the two calls of the repository's test
SanTestNormalizes == <<" ", "a", "C", "g", " ", "t", "\n", "N", " ">>
SanTestInvalid == <<"A", "C", "G", "T", "X">>

SanInit ==
    /\ pc = "input"
    /\ raw \in RawTexts \cup {SanTestNormalizes, SanTestInvalid}
    /\ allow_n \in BOOLEAN
    /\ max_length \in {None, Some(FormMaxLength)}
    /\ sanitized = Returns(<<>>)
    /\ resanitized = Returns(<<>>)
    /\ required_value = Returns(<<>>)
    /\ optional_value = Returns(<<>>)
    /\ KnobsIdle /\ ScanIdle /\ LocIdle /\ seq = <<>> /\ RcIdle /\ WinIdle /\ TaskIdle /\ InvIdle /\ AppIdle

SanitizeSequence ==
    /\ pc = "input"
    /\ sanitized' = sanitize_sequence(raw)
    /\ pc' = "sanitized"
    /\ UNCHANGED <<appVars, invVars, taskVars, max_mismatches, block_3prime_mismatch, scanVars, locVars,
                   seq, rcVars, winVars, raw, allow_n, max_length, resanitized,
                   required_value, optional_value>>

\* the cleaned text handed to sanitize_sequence once more
SanitizeSequenceAgain ==
    /\ pc = "sanitized"
    /\ ~sanitized.raised
    /\ resanitized' = sanitize_sequence(sanitized.value)
    /\ pc' = "resanitized"
    /\ UNCHANGED <<appVars, invVars, taskVars, max_mismatches, block_3prime_mismatch, scanVars, locVars,
                   seq, rcVars, winVars, raw, allow_n, max_length, sanitized,
                   required_value, optional_value>>

CleanSequenceValue ==
    /\ pc = "resanitized" \/ (pc = "sanitized" /\ sanitized.raised)
    /\ required_value' = clean_sequence_value(raw, allow_n, max_length)
    /\ pc' = "cleaned"
    /\ UNCHANGED <<appVars, invVars, taskVars, max_mismatches, block_3prime_mismatch, scanVars, locVars,
                   seq, rcVars, winVars, raw, allow_n, max_length, sanitized,
                   resanitized, optional_value>>

CleanOptionalSequenceValue ==
    /\ pc = "cleaned"
    /\ optional_value' = clean_optional_sequence_value(raw, allow_n)
    /\ pc' = "cleaned_optional"
    /\ UNCHANGED <<appVars, invVars, taskVars, max_mismatches, block_3prime_mismatch, scanVars, locVars,
                   seq, rcVars, winVars, raw, allow_n, max_length, sanitized,
                   resanitized, required_value>>

SanNext ==
    \/ SanitizeSequence
    \/ SanitizeSequenceAgain
    \/ CleanSequenceValue
    \/ CleanOptionalSequenceValue

SpecSanitize == SanInit /\ [][SanNext]_vars

\* ------------------------------------------- the views and the binding task
Users == {"ann", "bob"}
PrimerIds == {1}
SequenceFileIds == {1, 2}
Methods == {"GET", "POST"}

\* a Primer row and a SequenceFile row; the file's records stand for what is
\* stored under file.path
PrimerRow(sequence_, creator, users) ==
    [sequence |-> sequence_, creator |-> creator, users |-> users]
SequenceFileRow(file_type, records, uploaded_by) ==
    [file_type |-> file_type, records |-> records, uploaded_by |-> uploaded_by]

\* a stored hit: a PrimerBindingResult row
PrimerBindingResult(primer_id, sequence_file_id, record_id, start, end, strand_, mismatches) ==
    [primer |-> primer_id, sequence_file |-> sequence_file_id,
     record_id |-> record_id, start |-> start, end |-> end, strand |-> strand_,
     mismatches |-> mismatches]

\* the sequences stored for the primer, the type stored with each file (one
\* that the loader reads, one that it does not), and the records stored in
\* the files
StoredFileTypes == <<"fasta", "txt">>
StoredPrimers == {<<"A">>, <<"T", "A">>}
StoredRecords ==
    <<[id |-> "seq1", seq |-> <<"C", "A">>], [id |-> "seq2", seq |-> <<"T", "A">>]>>

\* the messages of the two errors a task can end with
NotFound == <<"Primer or sequence file not found.">>
UnsupportedFileType(file_type) == <<"Unsupported file type: ", file_type>>

\* a task as the result backend holds it: the call's arguments, the state,
\* the return value on success and the exception on failure
Task(primer_id, sequence_file_id, max_mm, block_3prime, state, result, info) ==
    [primer_id |-> primer_id, sequence_file_id |-> sequence_file_id,
     max_mismatches |-> max_mm, block_3prime_mismatch |-> block_3prime,
     state |-> state, result |-> result, info |-> info]

\* faulty variant: the task scans with a budget of its own
analyze_primer_binding_task_strict(primer_rows, file_rows, task) ==
    IF primer_rows[task.primer_id] = None \/ file_rows[task.sequence_file_id] = None
    THEN [task EXCEPT !.state = "FAILURE", !.info = Some(NotFound)]
    ELSE LET primer_row == Val(primer_rows[task.primer_id])
             file_row == Val(file_rows[task.sequence_file_id])
             out == analyze_primer_binding(primer_row.sequence, file_row, 0,
                                           task.block_3prime_mismatch)
         IN  IF out.raised
             THEN [task EXCEPT !.state = "FAILURE",
                               !.info = Some(UnsupportedFileType(file_row.file_type))]
             ELSE [task EXCEPT !.state = "SUCCESS",
                               !.result = Some(_serialize_binding_hits(out.hits))]

\* faulty variant: a missing row gives an empty result instead of an error
analyze_primer_binding_task_empty_on_missing(primer_rows, file_rows, task) ==
    IF primer_rows[task.primer_id] = None \/ file_rows[task.sequence_file_id] = None
    THEN [task EXCEPT !.state = "SUCCESS", !.result = Some(<<>>)]
    ELSE LET primer_row == Val(primer_rows[task.primer_id])
             file_row == Val(file_rows[task.sequence_file_id])
             out == analyze_primer_binding(primer_row.sequence, file_row,
                                           task.max_mismatches,
                                           task.block_3prime_mismatch)
         IN  IF out.raised
             THEN [task EXCEPT !.state = "FAILURE",
                               !.info = Some(UnsupportedFileType(file_row.file_type))]
             ELSE [task EXCEPT !.state = "SUCCESS",
                               !.result = Some(_serialize_binding_hits(out.hits))]

\* the task's body, run on the tables as they are when the worker runs it
analyze_primer_binding_task(primer_rows, file_rows, task) ==
    IF primer_rows[task.primer_id] = None \/ file_rows[task.sequence_file_id] = None
    THEN [task EXCEPT !.state = "FAILURE", !.info = Some(NotFound)]
    ELSE LET primer_row == Val(primer_rows[task.primer_id])
             file_row == Val(file_rows[task.sequence_file_id])
             out == analyze_primer_binding(primer_row.sequence, file_row,
                                           task.max_mismatches,
                                           task.block_3prime_mismatch)
         IN  IF out.raised
             THEN [task EXCEPT !.state = "FAILURE",
                               !.info = Some(UnsupportedFileType(file_row.file_type))]
             ELSE [task EXCEPT !.state = "SUCCESS",
                               !.result = Some(_serialize_binding_hits(out.hits))]

\* AsyncResult(task_id): an id the backend does not know reads as pending
AsyncResult(task_list, task_id) ==
    IF task_id \in 1..Len(task_list) THEN task_list[task_id]
    ELSE Task(0, 0, 0, TRUE, "PENDING", None, None)

\* get_object_or_404 with the filters of the two binding views
\* faulty variant: the primer is looked up by id alone
PrimerFor_any_user(user, primer_id) == primers[primer_id]

PrimerFor(user, primer_id) ==
    IF primers[primer_id] # None /\ user \in Val(primers[primer_id]).users
    THEN primers[primer_id] ELSE None
SequenceFileFor(user, sequence_file_id) ==
    IF files[sequence_file_id] # None
           /\ Val(files[sequence_file_id]).uploaded_by = user
    THEN files[sequence_file_id] ELSE None

Http404 == [status |-> 404, body |-> [detail |-> "Not Found"]]
Http500 == [status |-> 500, body |-> [detail |-> "Server Error"]]

TaskInit ==
    /\ pc = "idle"
    /\ \E stored \in StoredPrimers :
          primers = [id \in PrimerIds |-> Some(PrimerRow(stored, "ann", {"ann"}))]
    /\ files = [id \in SequenceFileIds |->
                   Some(SequenceFileRow(StoredFileTypes[id], StoredRecords, "ann"))]
    /\ binding_results =
          {PrimerBindingResult(1, id, "seq1", 0, 2, "+", 1) : id \in SequenceFileIds}
    /\ pairs = <<>>
    /\ tasks = <<>>
    /\ request = [view |-> "none"]
    /\ response = [status |-> 0]
    /\ KnobsIdle /\ ScanIdle /\ LocIdle /\ seq = <<>> /\ RcIdle /\ WinIdle /\ SanIdle /\ InvIdle /\ AppIdle

\* what the views and the worker leave alone
callVars == <<max_mismatches, block_3prime_mismatch, scanVars, locVars, seq,
             rcVars, winVars, sanVars, invVars, appVars>>

\* POST primer-binding/async/: the task is queued and its id returned
PrimerBindingAnalysisAsync(method, user, primer_id, sequence_file_id) ==
    /\ Len(tasks) < MaxTasks
    /\ pc' = "submit"
    /\ request' = [view |-> "primer_binding_analysis_async", method |-> method,
                   user |-> user, primer_id |-> primer_id,
                   sequence_file_id |-> sequence_file_id]
    /\ IF method # "POST"
       THEN /\ response' = [status |-> 405, body |-> [error |-> "POST required."]]
            /\ tasks' = tasks
       ELSE IF PrimerFor(user, primer_id) = None
                  \/ SequenceFileFor(user, sequence_file_id) = None
       THEN /\ response' = Http404
            /\ tasks' = tasks
       ELSE /\ tasks' = Append(tasks, Task(primer_id, sequence_file_id,
                                           ViewMaxMismatches, TRUE,
                                           "PENDING", None, None))
            /\ response' = [status |-> 202, body |-> [task_id |-> Len(tasks) + 1]]
    /\ UNCHANGED <<pairs, callVars, primers, files, binding_results>>

\* faulty variant: the status view drops the result once it has been read
PrimerBindingStatus_forgets(task_id) ==
    /\ pc' = "status"
    /\ request' = [view |-> "primer_binding_status", task_id |-> task_id]
    /\ LET result == AsyncResult(tasks, task_id)
       IN  /\ response' =
                IF result.state = "FAILURE"
                THEN [status |-> 500,
                      body |-> [state |-> result.state, error |-> Val(result.info)]]
                ELSE IF result.state = "SUCCESS"
                THEN [status |-> 200,
                      body |-> [state |-> result.state, result |-> Val(result.result)]]
                ELSE [status |-> 200, body |-> [state |-> result.state]]
           /\ tasks' = IF task_id \in 1..Len(tasks) /\ result.state = "SUCCESS"
                       THEN [tasks EXCEPT ![task_id].state = "PENDING",
                                          ![task_id].result = None]
                       ELSE tasks
    /\ UNCHANGED <<pairs, callVars, primers, files, binding_results>>

\* GET primer-binding/status/<task_id>/
PrimerBindingStatus(task_id) ==
    /\ pc' = "status"
    /\ request' = [view |-> "primer_binding_status", task_id |-> task_id]
    /\ LET result == AsyncResult(tasks, task_id)
       IN  response' =
                IF result.state = "FAILURE"
                THEN [status |-> 500,
                      body |-> [state |-> result.state, error |-> Val(result.info)]]
                ELSE IF result.state = "SUCCESS"
                THEN [status |-> 200,
                      body |-> [state |-> result.state, result |-> Val(result.result)]]
                ELSE [status |-> 200, body |-> [state |-> result.state]]
    /\ UNCHANGED <<pairs, callVars, primers, files, binding_results, tasks>>

\* primer-binding/: the form on GET, the hits computed in the request on POST
PrimerBindingAnalysis(method, user, primer_id, sequence_file_id) ==
    /\ pc' = "analysis"
    /\ request' = [view |-> "primer_binding_analysis", method |-> method,
                   user |-> user, primer_id |-> primer_id,
                   sequence_file_id |-> sequence_file_id]
    /\ response' =
          IF method # "POST"
          THEN [status |-> 200,
                body |-> [primers |-> {id \in PrimerIds : PrimerFor(user, id) # None},
                          sequence_files |->
                              {id \in SequenceFileIds : SequenceFileFor(user, id) # None}]]
          ELSE IF PrimerFor(user, primer_id) = None
                     \/ SequenceFileFor(user, sequence_file_id) = None
          THEN Http404
          ELSE LET out == analyze_primer_binding(
                              Val(PrimerFor(user, primer_id)).sequence,
                              Val(SequenceFileFor(user, sequence_file_id)),
                              ViewMaxMismatches, TRUE)
               IN  IF out.raised THEN Http500
                   ELSE [status |-> 200,
                         body |-> [primer |-> primer_id,
                                   sequence_file |-> sequence_file_id,
                                   hits |-> out.hits]]
    /\ UNCHANGED <<pairs, callVars, primers, files, binding_results, tasks>>

\* on_delete=CASCADE of PrimerPair.forward_primer and reverse_primer: the
\* pairs of a deleted primer go with it
without_primers(pair_rows, primer_ids) ==
    [id \in 1..Len(pair_rows) |->
        IF pair_rows[id] # None
              /\ (Val(pair_rows[id]).forward_primer \in primer_ids
                  \/ Val(pair_rows[id]).reverse_primer \in primer_ids)
        THEN None ELSE pair_rows[id]]

\* faulty variant: deleting a primer revokes the queued tasks that use it
PrimerDelete_revokes(user, primer_id) ==
    /\ pc' = "delete"
    /\ request' = [view |-> "primer_delete", user |-> user, primer_id |-> primer_id]
    /\ IF primers[primer_id] = None
       THEN /\ response' = Http404 /\ primers' = primers /\ tasks' = tasks
            /\ binding_results' = binding_results
       ELSE IF Val(primers[primer_id]).creator # user
       THEN /\ response' = [status |-> 403,
                            body |-> [detail |-> "You are not the creator of this primer."]]
            /\ primers' = primers
            /\ tasks' = tasks
            /\ binding_results' = binding_results
       ELSE /\ primers' = [primers EXCEPT ![primer_id] = None]
            /\ binding_results' = {row \in binding_results : row.primer # primer_id}
            /\ tasks' = [t \in 1..Len(tasks) |->
                            IF tasks[t].state = "PENDING" /\ tasks[t].primer_id = primer_id
                            THEN [tasks[t] EXCEPT !.state = "REVOKED"]
                            ELSE tasks[t]]
            /\ response' = [status |-> 302, body |-> [location |-> "primer_list"]]
    /\ pairs' = IF primers[primer_id] # None /\ Val(primers[primer_id]).creator = user
                THEN without_primers(pairs, {primer_id})
                ELSE pairs
    /\ UNCHANGED <<callVars, files>>

\* delete/<primer_id>/: the creator deletes the primer, and the stored hits
\* of the primer go with it
PrimerDelete(user, primer_id) ==
    /\ pc' = "delete"
    /\ request' = [view |-> "primer_delete", user |-> user, primer_id |-> primer_id]
    /\ IF primers[primer_id] = None
       THEN /\ response' = Http404 /\ primers' = primers
            /\ binding_results' = binding_results
       ELSE IF Val(primers[primer_id]).creator # user
       THEN /\ response' = [status |-> 403,
                            body |-> [detail |-> "You are not the creator of this primer."]]
            /\ primers' = primers
            /\ binding_results' = binding_results
       ELSE /\ primers' = [primers EXCEPT ![primer_id] = None]
            /\ binding_results' = {row \in binding_results : row.primer # primer_id}
            /\ response' = [status |-> 302, body |-> [location |-> "primer_list"]]
    /\ pairs' = IF primers[primer_id] # None /\ Val(primers[primer_id]).creator = user
                THEN without_primers(pairs, {primer_id})
                ELSE pairs
    /\ UNCHANGED <<callVars, files, tasks>>

\* a SequenceFile row goes away (no view deletes one; the row is a model
\* instance, and goes with its uploader)
SequenceFileDelete(sequence_file_id) ==
    /\ files[sequence_file_id] # None
    /\ pc' = "delete"
    /\ files' = [files EXCEPT ![sequence_file_id] = None]
    /\ binding_results' =
          {row \in binding_results : row.sequence_file # sequence_file_id}
    /\ UNCHANGED <<pairs, callVars, primers, tasks, request, response>>

\* the worker takes a queued task and runs it to its end: the return value
\* or the exception is stored with the task
RunTask(task_id) ==
    /\ task_id \in 1..Len(tasks)
    /\ tasks[task_id].state = "PENDING"
    /\ pc' = "worker"
    /\ tasks' = [tasks EXCEPT ![task_id] =
                    analyze_primer_binding_task(primers, files, tasks[task_id])]
    /\ UNCHANGED <<pairs, callVars, primers, files, binding_results, request, response>>

TaskNext ==
    \/ \E method \in Methods, user \in Users, primer_id \in PrimerIds,
          sequence_file_id \in SequenceFileIds :
            PrimerBindingAnalysisAsync(method, user, primer_id, sequence_file_id)
    \/ \E task_id \in 1..MaxTasks : PrimerBindingStatus(task_id)
    \/ \E method \in Methods, user \in Users, primer_id \in PrimerIds,
          sequence_file_id \in SequenceFileIds :
            PrimerBindingAnalysis(method, user, primer_id, sequence_file_id)
    \/ \E user \in Users, primer_id \in PrimerIds : PrimerDelete(user, primer_id)
    \/ \E sequence_file_id \in SequenceFileIds : SequenceFileDelete(sequence_file_id)
    \/ \E task_id \in 1..MaxTasks : RunTask(task_id)

SpecTask == TaskInit /\ [][TaskNext]_vars

\* the same views over rows of two users: the primer is ann's and may be
\* shared with bob, the first file is ann's upload and the second bob's
Uploaders == <<"ann", "bob">>

AccessInit ==
    /\ pc = "idle"
    /\ \E stored \in StoredPrimers, shared \in {{"ann"}, {"ann", "bob"}} :
          primers = [id \in PrimerIds |-> Some(PrimerRow(stored, "ann", shared))]
    /\ files = [id \in SequenceFileIds |->
                   Some(SequenceFileRow(StoredFileTypes[id], StoredRecords,
                                        Uploaders[id]))]
    /\ binding_results =
          {PrimerBindingResult(1, id, "seq1", 0, 2, "+", 1) : id \in SequenceFileIds}
    /\ pairs = <<>>
    /\ tasks = <<>>
    /\ request = [view |-> "none"]
    /\ response = [status |-> 0]
    /\ KnobsIdle /\ ScanIdle /\ LocIdle /\ seq = <<>> /\ RcIdle /\ WinIdle /\ SanIdle /\ InvIdle /\ AppIdle

SpecAccess == AccessInit /\ [][TaskNext]_vars

\* RunTask(task_id) can be taken exactly while the task is queued
Queued(task_id) == task_id \in 1..Len(tasks) /\ tasks[task_id].state = "PENDING"

\* the same system with a worker that does not stop while a task is queued:
\* weak fairness of RunTask(task_id) for every task, with the enabling
\* condition of the step written out as Queued(task_id)
SpecTaskFair ==
    /\ TaskInit
    /\ [][TaskNext]_vars
    /\ \A task_id \in 1..MaxTasks :
          []<>(~Queued(task_id)) \/ []<><<RunTask(task_id)>>_vars

\* ------------------------------------------ the views that store primers
\* the texts posted as a sequence: nothing, a sequence in mixed case, a
\* sequence with an N
PostedTexts == {<<>>, <<"a", "C">>, <<"G", "N">>}

\* the sheets of the Excel import: the sequence cells of the rows
Sheets == SeqsOf(PostedTexts, 1, MaxSheetRows)

Redirect(location, messages) ==
    [status |-> 302, body |-> [location |-> location, messages |-> messages]]
Rendered(errors) == [status |-> 200, body |-> [errors |-> errors]]

StoreInit ==
    /\ pc = "idle"
    /\ primers = <<>>
    /\ pairs = <<>>
    /\ files = <<>>
    /\ binding_results = {}
    /\ tasks = <<>>
    /\ request = [view |-> "none"]
    /\ response = [status |-> 0]
    /\ KnobsIdle /\ ScanIdle /\ LocIdle /\ seq = <<>> /\ RcIdle /\ WinIdle /\ SanIdle /\ InvIdle /\ AppIdle

\* what the storing views leave alone
keptVars == <<callVars, files, binding_results, tasks>>

\* primer_create: PrimerForm.clean_sequence, then create_with_analysis
PrimerCreate(method, user, text) ==
    /\ Len(primers) < MaxRows
    /\ pc' = "primer_create"
    /\ request' = [view |-> "primer_create", method |-> method, user |-> user,
                   sequence |-> text]
    /\ LET cleaned == clean_sequence_value(text, FALSE, Some(FormMaxLength))
           created == create_with_analysis(primers, cleaned.value, user)
       IN  IF method # "POST"
           THEN primers' = primers /\ response' = Rendered(<<>>)
           ELSE IF cleaned.raised
           THEN primers' = primers /\ response' = Rendered(cleaned.message)
           ELSE IF created.raised
           THEN primers' = primers /\ response' = Http500
           ELSE primers' = created.value /\ response' = Redirect("primer_list", <<>>)
    /\ UNCHANGED <<keptVars, pairs>>

\* the row loop of primer_import_excel: a row without a sequence is skipped,
\* a row that does not clean is reported, any other row is stored
RECURSIVE import_rows(_, _, _)
import_rows(table, rows, user) ==
    IF rows = <<>> THEN [table |-> table, created |-> 0, skipped |-> 0, errors |-> 0]
    ELSE LET sequence_ == str_strip(Head(rows))
             cleaned == clean_sequence_value(sequence_, FALSE, None)
             created == create_with_analysis(table, cleaned.value, user)
             stored == ~(sequence_ = <<>>) /\ ~cleaned.raised /\ ~created.raised
             rest == import_rows(IF stored THEN created.value ELSE table,
                                 Tail(rows), user)
         IN  IF sequence_ = <<>> THEN [rest EXCEPT !.skipped = @ + 1]
             ELSE IF cleaned.raised THEN [rest EXCEPT !.errors = @ + 1]
             ELSE [rest EXCEPT !.created = @ + 1]

\* primer_import_excel, the map_columns post over an uploaded sheet
PrimerImportExcel(user, rows) ==
    /\ Len(primers) + Len(rows) <= MaxRows
    /\ pc' = "primer_import_excel"
    /\ request' = [view |-> "primer_import_excel", method |-> "POST", user |-> user,
                   rows |-> rows]
    /\ LET imported == import_rows(primers, rows, user)
       IN  /\ primers' = imported.table
           /\ response' =
                 IF imported.created > 0
                 THEN Redirect("primer_list", <<"Imported", imported.created>>)
                 ELSE Rendered(<<"No primers were imported.">>)
    /\ UNCHANGED <<keptVars, pairs>>

\* one primer of a pair, as both pair views store it: the instance, the save
\* inside assign_creator, the analysis, the five assignments, the save
save_primer(table, sequence_, user) ==
    LET instance == assign_creator(Primer(sequence_), user)
        saved == insert(table, instance)
        id == Len(saved)
        analysis == analyze_primer(instance.sequence)
    IN  IF analysis.raised
        THEN [raised |-> TRUE, message |-> analysis.message, table |-> saved, id |-> id]
        ELSE [raised |-> FALSE, message |-> <<>>,
              table |-> update(saved, id, with_analysis(instance, analysis.value)),
              id |-> id]

\* the forward primer, the reverse primer and the pair, stored in this order;
\* an exception stops the sequence where it is raised
save_pair(primer_rows, pair_rows, left_seq, right_seq, user) ==
    LET forward == save_primer(primer_rows, left_seq, user)
        reverse == save_primer(forward.table, right_seq, user)
    IN  IF forward.raised
        THEN [raised |-> TRUE, message |-> forward.message,
              primers |-> forward.table, pairs |-> pair_rows]
        ELSE IF reverse.raised
        THEN [raised |-> TRUE, message |-> reverse.message,
              primers |-> reverse.table, pairs |-> pair_rows]
        ELSE [raised |-> FALSE, message |-> <<>>,
              primers |-> reverse.table,
              pairs |-> insert(pair_rows,
                               assign_creator(PrimerPair(forward.id, reverse.id), user))]

\* primerpair_combined_create: the form cleans both sequences (N allowed),
\* then the three rows are stored; nothing catches an exception
PrimerPairCombinedCreate(method, user, forward_text, reverse_text) ==
    /\ Len(primers) + 2 <= MaxRows
    /\ pc' = "primerpair_combined_create"
    /\ request' = [view |-> "primerpair_combined_create", method |-> method,
                   user |-> user, forward_sequence |-> forward_text,
                   reverse_sequence |-> reverse_text]
    /\ LET forward_sequence == clean_sequence_value(forward_text, TRUE,
                                                    Some(FormMaxLength))
           reverse_sequence == clean_sequence_value(reverse_text, TRUE,
                                                    Some(FormMaxLength))
           out == save_pair(primers, pairs, forward_sequence.value,
                            reverse_sequence.value, user)
       IN  IF method # "POST"
           THEN primers' = primers /\ pairs' = pairs /\ response' = Rendered(<<>>)
           ELSE IF forward_sequence.raised \/ reverse_sequence.raised
           THEN /\ primers' = primers /\ pairs' = pairs
                /\ response' = Rendered(IF forward_sequence.raised
                                        THEN forward_sequence.message
                                        ELSE reverse_sequence.message)
           ELSE /\ primers' = out.primers
                /\ pairs' = out.pairs
                /\ response' = IF out.raised THEN Http500
                               ELSE Redirect("primerpair_list", <<>>)
    /\ UNCHANGED keptVars

\* save_generated_primerpair: the posted sequences are stored as they are;
\* any exception becomes an error message and a redirect
SaveGeneratedPrimerPair(method, user, left_seq, right_seq) ==
    /\ Len(primers) + 2 <= MaxRows
    /\ pc' = "save_generated_primerpair"
    /\ request' = [view |-> "save_generated_primerpair", method |-> method,
                   user |-> user, left_seq |-> left_seq, right_seq |-> right_seq]
    /\ LET out == save_pair(primers, pairs, left_seq, right_seq, user)
       IN  IF method # "POST"
           THEN /\ primers' = primers /\ pairs' = pairs
                /\ response' = Redirect("analyze_sequence", <<>>)
           ELSE /\ primers' = out.primers
                /\ pairs' = out.pairs
                /\ response' =
                      Redirect("analyze_sequence",
                               IF out.raised
                               THEN <<"ERROR saving primer pair: ">> \o out.message
                               ELSE <<"Primer Pair saved successfully!">>)
    /\ UNCHANGED keptVars

\* faulty variant: the selection is not narrowed to the requester's primers
DeleteSelectedPrimers_any_creator(method, user, primer_ids) ==
    /\ pc' = "delete_selected_primers"
    /\ request' = [view |-> "delete_selected_primers", method |-> method,
                   user |-> user, primer_ids |-> primer_ids]
    /\ LET deletable == {id \in primer_ids : id <= Len(primers) /\ primers[id] # None}
       IN  IF method # "POST"
           THEN /\ response' = [status |-> 405, body |-> [detail |-> "POST only"]]
                /\ UNCHANGED <<primers, pairs, binding_results>>
           ELSE IF primer_ids = {} \/ deletable = {}
           THEN /\ response' = Redirect("primer_list", <<"error">>)
                /\ UNCHANGED <<primers, pairs, binding_results>>
           ELSE /\ primers' = [id \in 1..Len(primers) |->
                                  IF id \in deletable THEN None ELSE primers[id]]
                /\ pairs' = without_primers(pairs, deletable)
                /\ binding_results' =
                      {row \in binding_results : row.primer \notin deletable}
                /\ response' = Redirect("primer_list", <<"Deleted", Cardinality(deletable)>>)
    /\ UNCHANGED <<callVars, files, tasks>>

\* delete_selected_primers: the selected primers the requester created are
\* deleted, with their pairs and stored hits
DeleteSelectedPrimers(method, user, primer_ids) ==
    /\ pc' = "delete_selected_primers"
    /\ request' = [view |-> "delete_selected_primers", method |-> method,
                   user |-> user, primer_ids |-> primer_ids]
    /\ LET deletable == {id \in primer_ids :
                            /\ id <= Len(primers)
                            /\ primers[id] # None
                            /\ Val(primers[id]).creator = user}
           deletable_count == Cardinality(deletable)
       IN  IF method # "POST"
           THEN /\ response' = [status |-> 405, body |-> [detail |-> "POST only"]]
                /\ UNCHANGED <<primers, pairs, binding_results>>
           ELSE IF primer_ids = {}
           THEN /\ response' = Redirect("primer_list",
                                        <<"Select at least one primer to delete.">>)
                /\ UNCHANGED <<primers, pairs, binding_results>>
           ELSE IF deletable_count = 0
           THEN /\ response' =
                      Redirect("primer_list",
                               <<"No primers matched your selection or you lack delete access.">>)
                /\ UNCHANGED <<primers, pairs, binding_results>>
           ELSE /\ primers' = [id \in 1..Len(primers) |->
                                  IF id \in deletable THEN None ELSE primers[id]]
                /\ pairs' = without_primers(pairs, deletable)
                /\ binding_results' =
                      {row \in binding_results : row.primer \notin deletable}
                /\ response' =
                      Redirect("primer_list",
                               <<"Deleted", deletable_count>> \o
                               IF deletable_count < Cardinality(primer_ids)
                               THEN <<"Some primers were not deleted because you do not own them.">>
                               ELSE <<>>)
    /\ UNCHANGED <<callVars, files, tasks>>

\* primer_delete over the growing table: an id that was never given out is
\* not found
PrimerDeleteView(user, primer_id) ==
    IF primer_id <= Len(primers)
    THEN PrimerDelete(user, primer_id)
    ELSE /\ pc' = "delete"
         /\ request' = [view |-> "primer_delete", user |-> user, primer_id |-> primer_id]
         /\ response' = Http404
         /\ UNCHANGED <<keptVars, primers, pairs>>

StoreNext ==
    \/ \E method \in Methods, user \in Users, text \in PostedTexts :
          PrimerCreate(method, user, text)
    \/ \E user \in Users, rows \in Sheets : PrimerImportExcel(user, rows)
    \/ \E method \in Methods, user \in Users, forward_text, reverse_text \in PostedTexts :
          PrimerPairCombinedCreate(method, user, forward_text, reverse_text)
    \/ \E method \in Methods, user \in Users, left_seq, right_seq \in PostedTexts :
          SaveGeneratedPrimerPair(method, user, left_seq, right_seq)
    \/ \E user \in Users, primer_id \in 1..MaxRows : PrimerDeleteView(user, primer_id)
    \/ \E method \in Methods, user \in Users, primer_ids \in SUBSET (1..MaxRows) :
          DeleteSelectedPrimers(method, user, primer_ids)

SpecStore == StoreInit /\ [][StoreNext]_vars

\* ------------------------------------------------ the design of primers
\* the sequences posted to the view: a template, a template typed in lower
\* case with a blank, a text with a foreign character, nothing
DesignTexts == {<<"A", "C", "G", "T">>, <<"a", "c", " ", "g", "t">>, <<"A", "X">>, <<>>}

\* the sequences the engine hands back
DesignSeqs == {<<"A", "C">>, <<"T", "T">>}

Sides == {"LEFT", "RIGHT"}

\* the counts the engine reports: absent, or up to MaxReturned
Counts == {None} \cup {Some(n) : n \in 0..MaxReturned}

\* the engine gives a sequence for every index it counts, and picks primers
\* only on the sides it was asked for
EngineResults(sides) ==
    {Primer3Results(pair_n, left_n, right_n, left_seqs, right_seqs) :
        pair_n \in {c \in Counts : get_count(c) > 0 => sides = Sides},
        left_n \in {c \in Counts : get_count(c) > 0 => "LEFT" \in sides},
        right_n \in {c \in Counts : get_count(c) > 0 => "RIGHT" \in sides},
        left_seqs \in SeqsOf(DesignSeqs, 0, MaxReturned),
        right_seqs \in SeqsOf(DesignSeqs, 0, MaxReturned)}

\* the call of the repository's test: template ACGT, one pair AAA / TTT
DesignTestCall ==
    /\ raw_seq = <<"A", "C", "G", "T">>
    /\ primer_sides = Sides
    /\ raw_results = Primer3Results(Some(1), Some(1), Some(1),
                                    <<<<"A", "A", "A">>>>, <<<<"T", "T", "T">>>>)

DesignInit ==
    /\ pc = "input"
    /\ request_method \in Methods
    /\ form_valid \in BOOLEAN
    /\ \/ /\ raw_seq \in DesignTexts
          /\ primer_sides \in SUBSET Sides
          /\ raw_results \in EngineResults(primer_sides)
          /\ Len(raw_results.PRIMER_LEFT_SEQUENCE) =
                Max(get_count(raw_results.PRIMER_PAIR_NUM_RETURNED),
                    get_count(raw_results.PRIMER_LEFT_NUM_RETURNED))
          /\ Len(raw_results.PRIMER_RIGHT_SEQUENCE) =
                Max(get_count(raw_results.PRIMER_PAIR_NUM_RETURNED),
                    get_count(raw_results.PRIMER_RIGHT_NUM_RETURNED))
       \/ DesignTestCall
    /\ primer_list = <<>>
    /\ mode = ""
    /\ rendered = None
    /\ KnobsIdle /\ ScanIdle /\ LocIdle /\ seq = <<>> /\ RcIdle /\ WinIdle /\ SanIdle /\ TaskIdle /\ InvIdle /\ FindIdle

\* what a design step leaves alone
undesignedVars == <<max_mismatches, block_3prime_mismatch, scanVars, locVars, seq,
                    rcVars, winVars, sanVars, taskVars, invVars, findVars,
                    request_method, form_valid, raw_seq, primer_sides, raw_results>>

\* analyze_sequence(sequence, global_args), called on the text as it is
AnalyzeSequence ==
    /\ pc = "input"
    /\ LET out == analyze_sequence(raw_seq, raw_results)
       IN  /\ primer_list' = out.primer_list
           /\ mode' = out.mode
    /\ pc' = "analysed"
    /\ UNCHANGED <<undesignedVars, rendered>>

Page(template, context) == Returns([template |-> template, context |-> context])

\* analyze_sequence_view: the form, the sanitizer, the sides, the engine, the
\* annotation of every candidate, the page
AnalyzeSequenceView ==
    /\ pc = "input"
    /\ pc' = "rendered"
    /\ LET cleaned == sanitize_sequence(raw_seq)
           out == analyze_sequence(cleaned.value, raw_results)
           annotated == annotate(cleaned.value, out.primer_list)
       IN  IF request_method # "POST" \/ ~form_valid
           THEN /\ rendered' = Some(Page("core/analyze_sequence.html", <<>>))
                /\ UNCHANGED <<primer_list, mode>>
           ELSE IF cleaned.raised
           THEN /\ rendered' = Some(Page("core/analyze_sequence.html", cleaned.message))
                /\ UNCHANGED <<primer_list, mode>>
           ELSE IF primer_sides = {}
           THEN /\ rendered' = Some(Page("core/analyze_sequence.html",
                                         <<"Select at least one primer direction.">>))
                /\ UNCHANGED <<primer_list, mode>>
           ELSE IF annotated.raised
           THEN /\ rendered' = Some(Raises(annotated.message))
                /\ primer_list' = out.primer_list
                /\ mode' = out.mode
           ELSE /\ rendered' = Some(Page("core/analyze_sequence_results.html",
                                         [sequence |-> cleaned.value,
                                          primer_list |-> annotated.value,
                                          mode |-> out.mode]))
                /\ primer_list' = annotated.value
                /\ mode' = out.mode
    /\ UNCHANGED undesignedVars

DesignNext == AnalyzeSequence \/ AnalyzeSequenceView

SpecDesign == DesignInit /\ [][DesignNext]_vars

\* ------------------------------- the locator, two invocations side by side
Invocations == {1, 2}

\* the list objects an invocation's locals name: `[0] * window_count` and
\* `results = []` each make a new list on every call
\* faulty variant: `results` is one module-level list
ResultsOf_module_level(c) == 1

ResultsOf(c) == c
BufferOf(c) == c

\* the files of the calls: two records (the second in lower case), one
\* GenBank record, a record shorter than the primer, and an unsupported type
TwoRecords ==
    [file_type |-> "fasta",
     records |-> <<[id |-> "seq1", seq |-> <<"T", "C", "A">>],
                   [id |-> "seq2", seq |-> <<"t", "c">>]>>]
OneRecord ==
    [file_type |-> "genbank",
     records |-> <<[id |-> "seq1", seq |-> <<"A", "T">>]>>]
ShortRecord ==
    [file_type |-> "fasta",
     records |-> <<[id |-> "seq1", seq |-> <<"T">>]>>]

Call(prim_sequence, seq_file, max_mm, block_3prime) ==
    [primer_sequence |-> prim_sequence, sequence_file |-> seq_file,
     max_mismatches |-> max_mm, block_3prime_mismatch |-> block_3prime]

InvocationCalls ==
    {Call(<<"T", "C">>, TwoRecords, 1, TRUE),
     Call(<<"a">>, OneRecord, 0, FALSE),
     Call(<<"T", "C">>, ShortRecord, 1, TRUE),
     Call(<<"A">>, Typed(OneRecord, "txt"), 0, TRUE)}

\* what an invocation leaves alone beside the tables
soloVars == <<max_mismatches, block_3prime_mismatch, scanVars, locVars, seq,
             rcVars, winVars, sanVars, appVars>>

\* the locals of an invocation that has not run yet
Frame(call) ==
    [call |-> call, at |-> "call", prim |-> <<>>, prim_rc |-> <<>>,
     records |-> <<>>, r |-> 0, strand_ |-> "+", offset |-> 0,
     counts |-> <<>>, fwd_hits |-> <<>>, rev_hits |-> <<>>]

InvInit ==
    /\ pc = "calls"
    /\ frames \in [Invocations -> {Frame(call) : call \in InvocationCalls}]
    /\ mismatch_buffers = [c \in Invocations |-> <<>>]
    /\ hit_lists = [c \in Invocations |-> <<>>]
    /\ KnobsIdle /\ ScanIdle /\ LocIdle /\ seq = <<>> /\ RcIdle /\ WinIdle /\ SanIdle /\ TaskIdle /\ AppIdle

\* the record an invocation is scanning, upper-cased, and the primer of the
\* strand it is on
Template(f) == upper(f.records[f.r].seq)
StrandPrimer(f) == IF f.strand_ = "+" THEN f.prim ELSE f.prim_rc

\* lines 71-79: the primers, the new result list, the loader
Enter(c) ==
    LET f == frames[c]
        loaded == load_sequences(f.call.sequence_file.records,
                                 f.call.sequence_file.file_type)
    IN  /\ f.at = "call"
        /\ hit_lists' = [hit_lists EXCEPT ![ResultsOf(c)] = <<>>]
        /\ frames' = [frames EXCEPT ![c] =
              [f EXCEPT !.prim = upper(f.call.primer_sequence),
                        !.prim_rc = reverse_complement(upper(f.call.primer_sequence)),
                        !.records = loaded.records,
                        !.r = 1,
                        !.at = IF loaded.raised THEN "raised" ELSE "record"]]
        /\ UNCHANGED <<pc, soloVars, taskVars, mismatch_buffers>>

\* line 76: the next record, or line 102 when there is none
NextRecord(c) ==
    LET f == frames[c]
    IN  /\ f.at = "record"
        /\ frames' = [frames EXCEPT ![c] =
              IF f.r > Len(f.records) THEN [f EXCEPT !.at = "returned"]
              ELSE [f EXCEPT !.strand_ = "+", !.at = "alloc"]]
        /\ UNCHANGED <<pc, soloVars, taskVars, mismatch_buffers, hit_lists>>

\* lines 15-20: no window, and the generator ends at once; otherwise the
\* buffer is allocated
AllocateCounts(c) ==
    LET f == frames[c]
    IN  /\ f.at = "alloc"
        /\ IF window_count_of(Template(f), StrandPrimer(f)) <= 0
           THEN /\ frames' = [frames EXCEPT ![c] =
                                 [f EXCEPT !.counts = <<>>, !.at = "scan"]]
                /\ UNCHANGED mismatch_buffers
           ELSE /\ mismatch_buffers' =
                      [mismatch_buffers EXCEPT ![BufferOf(c)] =
                          zero_counts(Template(f), StrandPrimer(f))]
                /\ frames' = [frames EXCEPT ![c] =
                                 [f EXCEPT !.offset = 0, !.at = "count"]]
        /\ UNCHANGED <<pc, soloVars, taskVars, hit_lists>>

\* lines 21-28: one primer position, or the buffer handed back to the scanner
CountDiagonal(c) ==
    LET f == frames[c]
    IN  /\ f.at = "count"
        /\ IF f.offset < Len(StrandPrimer(f))
           THEN /\ mismatch_buffers' =
                      [mismatch_buffers EXCEPT ![BufferOf(c)] =
                          add_diagonal(Template(f), StrandPrimer(f), f.offset, @)]
                /\ frames' = [frames EXCEPT ![c] =
                                 [f EXCEPT !.offset = f.offset + 1]]
           ELSE /\ frames' = [frames EXCEPT ![c] =
                                 [f EXCEPT !.counts = mismatch_buffers[BufferOf(c)],
                                           !.at = "scan"]]
                /\ UNCHANGED mismatch_buffers
        /\ UNCHANGED <<pc, soloVars, taskVars, hit_lists>>

\* lines 41-59 and 82-96: the scanner's loop, for the forward primer and then
\* for its reverse complement
ScanCounts(c) ==
    LET f == frames[c]
        found == scan_counts(Template(f), StrandPrimer(f), f.strand_, f.counts,
                             f.call.max_mismatches, f.call.block_3prime_mismatch)
    IN  /\ f.at = "scan"
        /\ frames' = [frames EXCEPT ![c] =
              IF f.strand_ = "+"
              THEN [f EXCEPT !.fwd_hits = found, !.strand_ = "-", !.at = "alloc"]
              ELSE [f EXCEPT !.rev_hits = found, !.at = "append"]]
        /\ UNCHANGED <<pc, soloVars, taskVars, mismatch_buffers, hit_lists>>

\* lines 98-100: the record's hits are stamped and appended
AppendHits(c) ==
    LET f == frames[c]
    IN  /\ f.at = "append"
        /\ hit_lists' = [hit_lists EXCEPT ![ResultsOf(c)] =
              @ \o Stamp(f.fwd_hits \o f.rev_hits, f.records[f.r].id)]
        /\ frames' = [frames EXCEPT ![c] = [f EXCEPT !.r = f.r + 1, !.at = "record"]]
        /\ UNCHANGED <<pc, soloVars, taskVars, mismatch_buffers>>

InvNext ==
    \E c \in Invocations :
        \/ Enter(c)
        \/ NextRecord(c)
        \/ AllocateCounts(c)
        \/ CountDiagonal(c)
        \/ ScanCounts(c)
        \/ AppendHits(c)

SpecCalls == InvInit /\ [][InvNext]_vars

\* ------------------------------------------------ properties of the scanner
\* the per-offset double loop: positions j of the primer that differ at offset i
NaiveMismatches(tmpl, prim, i) ==
    Cardinality({j \in 0..(Len(prim) - 1) : Index(tmpl, i + j) # Index(prim, j)})

\* the candidate start offsets 0 .. len(T) - len(P)
Offsets(tmpl, prim) == 0..(Len(tmpl) - Len(prim))

HitStarts(hs) == {hit_start(hs[n]) : n \in 1..Len(hs)}

AscendingStarts(hs) ==
    \A a, b \in 1..Len(hs) : a < b => hit_start(hs[a]) < hit_start(hs[b])

\* C1: for len(P) <= len(T), iter_mismatch_counts yields len(T)-len(P)+1
\* counts, the i-th being the number of positions j with T[i+j] # P[j]; every
\* hit of scan_sequence carries that count for its start offset.
C1_MismatchCounts ==
    /\ (pc \in {"counted", "scanned"} /\ Len(primer) <= Len(sequence)) =>
          /\ Len(mismatch_counts) = Len(sequence) - Len(primer) + 1
          /\ \A i \in Offsets(sequence, primer) :
                mismatch_counts[i + 1] = NaiveMismatches(sequence, primer, i)
    /\ pc = "scanned" =>
          \A n \in 1..Len(hits) :
              hit_mismatches(hits[n])
                  = NaiveMismatches(sequence, primer, hit_start(hits[n]))

\* a scan that returned a hit with a mismatch, out of several offsets
C1_Witness ==
    /\ pc = "scanned"
    /\ Len(mismatch_counts) >= 2
    /\ \E n \in 1..Len(hits) : hit_mismatches(hits[n]) = 1
    /\ \E i \in Offsets(sequence, primer) : mismatch_counts[i + 1] = 2

\* C2: with block_3prime_mismatch on, scan_sequence returns no hit at an
\* offset i with T[i+len(P)-1] # P[-1], whatever the budget.
C2_ThreePrimeBlock ==
    (pc = "scanned" /\ block_3prime_mismatch) =>
        \A i \in Offsets(sequence, primer) :
            Index(sequence, i + Len(primer) - 1) # Index(primer, -1)
                => i \notin HitStarts(hits)

\* an offset within the budget whose last base differs, beside a returned hit
C2_Witness ==
    /\ pc = "scanned"
    /\ block_3prime_mismatch
    /\ hits # <<>>
    /\ \E i \in Offsets(sequence, primer) :
          /\ NaiveMismatches(sequence, primer, i) <= max_mismatches
          /\ Index(sequence, i + Len(primer) - 1) # Index(primer, -1)

ExactOffsets(tmpl, prim) ==
    {i \in Offsets(tmpl, prim) : Slice(tmpl, i, i + Len(prim)) = prim}

\* C3: at max_mismatches = 0 and len(P) <= len(T), scan_sequence returns
\* exactly the offsets where T[i:i+len(P)] = P, ascending, and the same list
\* with the 3' rule on or off.
C3_ExactAtZero ==
    (pc = "scanned" /\ max_mismatches = 0 /\ Len(primer) <= Len(sequence)) =>
        /\ HitStarts(hits) = ExactOffsets(sequence, primer)
        /\ AscendingStarts(hits)
        /\ hits = scan_sequence(sequence, primer, strand, 0,
                                ~block_3prime_mismatch)

\* an exact scan that found the primer twice
C3_Witness ==
    /\ pc = "scanned"
    /\ max_mismatches = 0
    /\ Len(hits) = 2
    /\ Cardinality(ExactOffsets(sequence, primer)) = 2
    /\ Len(sequence) > Len(primer) + 1

\* C4: with the 3' rule off, scan_sequence returns one hit per offset whose
\* mismatch count is within the budget, each once, no other, ascending; a
\* primer longer than the template gives the empty list.
C4_BudgetFilter ==
    (pc = "scanned" /\ ~block_3prime_mismatch) =>
        /\ HitStarts(hits) =
              {i \in Offsets(sequence, primer) :
                  NaiveMismatches(sequence, primer, i) <= max_mismatches}
        /\ AscendingStarts(hits)
        /\ Len(hits) = Cardinality(HitStarts(hits))
        /\ Len(primer) > Len(sequence) => hits = <<>>

\* a scan without the 3' rule that kept one offset and dropped another
C4_Witness ==
    /\ pc = "scanned"
    /\ ~block_3prime_mismatch
    /\ max_mismatches = 1
    /\ Len(hits) = 1
    /\ hit_mismatches(hits[1]) = 1
    /\ Len(mismatch_counts) = 2

\* a primer longer than the template
C4_WitnessTooLong ==
    /\ pc = "scanned"
    /\ Len(primer) > Len(sequence)
    /\ hits = <<>>

\* ------------------------------------------------ properties of the locator
OverBases(s) == \A i \in 1..Len(s) : s[i] \in Bases

\* what one record contributes: its '+' hits, then its '-' hits, stamped
Contribution(record) ==
    Stamp(scan_sequence(upper(record.seq), upper(primer_sequence), "+",
                        max_mismatches, block_3prime_mismatch), record.id)
    \o Stamp(scan_sequence(upper(record.seq),
                           reverse_complement(upper(primer_sequence)), "-",
                           max_mismatches, block_3prime_mismatch), record.id)

RECURSIVE ContributionsUpTo(_)
ContributionsUpTo(r) ==
    IF r = 0 THEN <<>>
    ELSE ContributionsUpTo(r - 1) \o Contribution(sequence_file.records[r])

\* the record a hit was stamped with, by its position in the file
RecordOf(hit) ==
    CHOOSE r \in 1..Len(sequence_file.records) :
        sequence_file.records[r].id = hit_record_id(hit)

\* C5: per record, analyze_primer_binding contributes the '+' scan of the
\* upper-cased record with the upper-cased primer, then the '-' scan with its
\* reverse complement; every hit's record_id is the identifier of the record
\* it was scanned from; AAACCC with AAA gives one hit: '+', 0, 3.
C5_LocatorContributions ==
    /\ pc = "returned" =>
          /\ results = ContributionsUpTo(Len(sequence_file.records))
          /\ \A n \in 1..Len(results) :
                /\ hit_record_id(results[n]) # ""
                /\ hit_record_id(results[n])
                      \in {sequence_file.records[r].id :
                              r \in 1..Len(sequence_file.records)}
    /\ (pc = "returned" /\ primer_sequence = <<"A", "A", "A">>
            /\ sequence_file = AAACCC) =>
          results = <<PrimerBindingHit("seq1", 0, 3, "+", 0)>>

\* a lower-case file of two records, both with hits, one on each strand
C5_Witness ==
    /\ pc = "returned"
    /\ Len(sequence_file.records) = 2
    /\ \A r \in 1..2 : sequence_file.records[r].seq # upper(sequence_file.records[r].seq)
    /\ \E a, b \in 1..Len(results) :
          /\ hit_record_id(results[a]) = "seq1" /\ hit_strand(results[a]) = "-"
          /\ hit_record_id(results[b]) = "seq2" /\ hit_strand(results[b]) = "+"

\* C6: hits of an earlier record precede hits of a later record; within a
\* record '+' hits precede '-' hits; nothing is re-sorted or de-duplicated.
C6_HitOrder ==
    pc = "returned" =>
        /\ \A a, b \in 1..Len(results) :
              a < b =>
                 /\ RecordOf(results[a]) <= RecordOf(results[b])
                 /\ RecordOf(results[a]) = RecordOf(results[b]) =>
                       ~(hit_strand(results[a]) = "-" /\ hit_strand(results[b]) = "+")
        /\ Len(results) = Len(ContributionsUpTo(Len(sequence_file.records)))

\* two records, each with a '+' and a '-' hit
C6_Witness ==
    /\ pc = "returned"
    /\ Len(sequence_file.records) = 2
    /\ \A r \in 1..2 : \A s \in {"+", "-"} :
          \E n \in 1..Len(results) :
              RecordOf(results[n]) = r /\ hit_strand(results[n]) = s

\* a '+' hit that stays ahead of a '-' hit at a lower start
C6_WitnessUnsorted ==
    /\ pc = "returned"
    /\ \E a, b \in 1..Len(results) :
          /\ a < b
          /\ hit_start(results[a]) > hit_start(results[b])
          /\ hit_record_id(results[a]) = hit_record_id(results[b])

PayloadKeys == {"record_id", "start", "end", "strand", "mismatches"}

\* C7: every hit has strand '+' or '-', 0 <= start, end = start + len(primer),
\* end <= len(record sequence), 0 <= mismatches <= max_mismatches; the
\* serialization keeps the five field values and the order.
C7_HitShape ==
    /\ pc \in {"returned", "serialized"} =>
          \A n \in 1..Len(results) :
              LET hit == results[n]
              IN  /\ hit_strand(hit) \in {"+", "-"}
                  /\ 0 <= hit_start(hit)
                  /\ hit_end(hit) = hit_start(hit) + Len(primer_sequence)
                  /\ hit_end(hit) <= Len(sequence_file.records[RecordOf(hit)].seq)
                  /\ 0 <= hit_mismatches(hit)
                  /\ hit_mismatches(hit) <= max_mismatches
    /\ pc = "serialized" =>
          /\ Len(payload) = Len(results)
          /\ \A n \in 1..Len(results) :
                /\ DOMAIN payload[n] = PayloadKeys
                /\ payload[n].record_id = hit_record_id(results[n])
                /\ payload[n].start = hit_start(results[n])
                /\ payload[n].end = hit_end(results[n])
                /\ payload[n].strand = hit_strand(results[n])
                /\ payload[n].mismatches = hit_mismatches(results[n])

\* a serialized list of several hits, one of them with a mismatch
C7_Witness ==
    /\ pc = "serialized"
    /\ Len(payload) >= 2
    /\ \E n \in 1..Len(payload) : payload[n].mismatches = 1 /\ payload[n].start = 1
    /\ \E n \in 1..Len(payload) : payload[n].strand = "-"

\* the locator's hits for another primer against the same file
HitsFor(prim_sequence) ==
    analyze_primer_binding(prim_sequence, sequence_file, max_mismatches,
                           block_3prime_mismatch).hits

OnStrand(hs, s) == {n \in 1..Len(hs) : hit_strand(hs[n]) = s}

\* each hit of `from` on strand s has exactly one partner in `to` on strand t:
\* same record, same mismatch count, start as given by Partner
Paired(from, s, to, t, Partner(_)) ==
    \A a \in OnStrand(from, s) :
        Cardinality({b \in OnStrand(to, t) :
            /\ hit_record_id(to[b]) = hit_record_id(from[a])
            /\ hit_mismatches(to[b]) = hit_mismatches(from[a])
            /\ hit_start(to[b]) = Partner(from[a])}) = 1

\* len(T) - len(P) - start, T being the record the hit was found in
Mirrored(hit) ==
    Len(sequence_file.records[RecordOf(hit)].seq) - Len(primer_sequence)
        - hit_start(hit)

SymmetryCase ==
    /\ pc = "returned"
    /\ OverBases(primer_sequence)
    /\ \A r \in 1..Len(sequence_file.records) :
          OverBases(sequence_file.records[r].seq)

\* C9 as stated: a '+' hit for P pairs with exactly one '-' hit for
\* reverse_complement(P) at the mirrored offset, and conversely.
C9_MirroredSymmetry ==
    SymmetryCase =>
        /\ Paired(results, "+", HitsFor(reverse_complement(primer_sequence)), "-",
                  Mirrored)
        /\ Paired(HitsFor(reverse_complement(primer_sequence)), "-", results, "+",
                  Mirrored)

\* C9 amended: a '+' hit for P pairs with exactly one '-' hit for
\* reverse_complement(P) at the same start offset of the same record, with
\* the same mismatch count, and conversely.
C9_StrandSymmetry ==
    SymmetryCase =>
        /\ Paired(results, "+", HitsFor(reverse_complement(primer_sequence)), "-",
                  hit_start)
        /\ Paired(HitsFor(reverse_complement(primer_sequence)), "-", results, "+",
                  hit_start)

\* a '+' hit away from the middle of its record, for a primer that is not its
\* own reverse complement
C9_Witness ==
    /\ SymmetryCase
    /\ reverse_complement(primer_sequence) # primer_sequence
    /\ \E n \in OnStrand(results, "+") : Mirrored(results[n]) # hit_start(results[n])

\* ------------------------------------ properties of the reverse complement
\* A <-> T and C <-> G
Paired_Base == [b \in Bases |->
                   IF b = "A" THEN "T" ELSE IF b = "T" THEN "A"
                   ELSE IF b = "C" THEN "G" ELSE "C"]

\* C8: over {A,C,G,T}, reverse_complement is seq reversed with A<->T and C<->G
\* swapped, of the same length, and applying it twice gives seq back;
\* ATGC becomes GCAT.
C8_Involution ==
    /\ pc \in {"once", "twice"} =>
          /\ Len(complemented) = Len(seq)
          /\ \A i \in 0..(Len(seq) - 1) :
                Index(complemented, i) = Paired_Base[Index(seq, Len(seq) - 1 - i)]
    /\ pc = "twice" => restored = seq
    /\ (pc = "once" /\ seq = <<"A", "T", "G", "C">>) =>
          complemented = <<"G", "C", "A", "T">>

\* a sequence that is not its own reverse complement, complemented twice
C8_Witness ==
    /\ pc = "twice"
    /\ seq = <<"A", "T", "G", "C">>
    /\ complemented = <<"G", "C", "A", "T">>
    /\ restored = seq

\* --------------------------------------------- properties of the renderer
\* the left ellipsis is prepended when the window does not start at base 0
LeftEllipsisAdded(p, fl) == Max(0, p - fl) > 0

\* C10: for 0 <= pos, pos+L <= len(T), flank >= 0, window_sequence returns
\* (w, off, L) with w[off:off+L] = T[pos:pos+L] and
\* off = pos - max(0, pos-flank) + (3 if a left ellipsis was prepended);
\* the rendered line has the length of w, shows T[pos:pos+L] on [off, off+L)
\* and '.' elsewhere; ACGTACGTAC, 3, 3, 2 gives '...CGTACGT...', 5,
\* '.....TAC.....'.
C10_WindowOffset ==
    /\ (pc \in {"windowed", "rendered"} /\ pos # None) =>
          LET w == Val(window[1])
              off == Val(window[2])
              p == Val(pos)
          IN  /\ window[3] = Some(primer_len)
              /\ Slice(w, off, off + primer_len) = Slice(seq, p, p + primer_len)
              /\ off = p - Max(0, p - flank)
                         + (IF LeftEllipsisAdded(p, flank) THEN 3 ELSE 0)
              /\ LeftEllipsisAdded(p, flank) => Slice(w, 0, 3) = Ellipsis
              /\ pc = "rendered" =>
                    /\ Len(line) = Len(w)
                    /\ \A i \in 0..(Len(w) - 1) :
                          Index(line, i) =
                              IF off <= i /\ i < off + primer_len
                              THEN Index(seq, p + (i - off))
                              ELSE "."
    /\ (pc \in {"windowed", "rendered"} /\ seq = ACGTACGTAC /\ pos = Some(3)
            /\ primer_len = 3 /\ flank = 2) =>
          /\ window =
                <<Some(Ellipsis \o <<"C", "G", "T", "A", "C", "G", "T">> \o Ellipsis),
                  Some(5), Some(3)>>
          /\ pc = "rendered" =>
                line = <<".", ".", ".", ".", ".", "T", "A", "C", ".", ".", ".", ".", ".">>

\* a rendered window with an ellipsis and flanking bases on both sides
C10_Witness ==
    /\ pc = "rendered"
    /\ pos # None
    /\ primer_len >= 1
    /\ flank >= 1
    /\ LeftEllipsisAdded(Val(pos), flank)
    /\ Len(Val(window[1])) = 6 + 2 * flank + primer_len
    /\ Val(window[2]) = 3 + flank
    /\ line # Val(window[1])

\* within the length bound: a left ellipsis and flanking bases around the match
C10_WitnessBounded ==
    /\ pc = "rendered"
    /\ pos # None
    /\ Len(seq) <= MaxTemplateLen
    /\ primer_len >= 1
    /\ flank >= 1
    /\ Len(Val(window[1])) = 3 + 2 * flank + primer_len
    /\ Val(window[2]) = 3 + flank

\* the text the window carries before and after its copy of the template,
\* located through the returned primer start
WindowStart == Max(0, Val(pos) - flank)
WindowEnd == Min(Len(seq), Val(pos) + primer_len + flank)
CopyStart == Val(window[2]) - (Val(pos) - WindowStart)
WindowPrefix == Slice(Val(window[1]), 0, CopyStart)
WindowSuffix ==
    Slice(Val(window[1]), CopyStart + (WindowEnd - WindowStart),
          Len(Val(window[1])))

\* the window text is prefix, the cut of the template, suffix; each of the two
\* is the ellipsis or nothing
WindowShape ==
    /\ WindowPrefix \in {<<>>, Ellipsis}
    /\ WindowSuffix \in {<<>>, Ellipsis}
    /\ Val(window[1]) =
          WindowPrefix \o Slice(seq, WindowStart, WindowEnd) \o WindowSuffix

\* C11 as stated: the window is prefixed with '...' exactly when the left
\* bound was clamped (position - flank < 0), and suffixed with '...' exactly
\* when the right bound was clamped
\* (position + match_length + flank > len(template)).
C11_EllipsisWhenClamped ==
    (pc \in {"windowed", "rendered", "drawn"} /\ pos # None) =>
        /\ WindowShape
        /\ (WindowPrefix = Ellipsis) <=> (Val(pos) - flank < 0)
        /\ (WindowSuffix = Ellipsis) <=>
              (Val(pos) + primer_len + flank > Len(seq))

\* C11, amended: the window is prefixed with '...' exactly when it starts
\* after the first base of the template (position - flank > 0), and suffixed
\* with '...' exactly when it ends before the last one
\* (position + match_length + flank < len(template)); a clamped bound gets no
\* ellipsis.
C11_EllipsisWhenTruncated ==
    (pc \in {"windowed", "rendered", "drawn"} /\ pos # None) =>
        /\ WindowShape
        /\ (WindowPrefix = Ellipsis) <=> (Val(pos) - flank > 0)
        /\ (WindowSuffix = Ellipsis) <=>
              (Val(pos) + primer_len + flank < Len(seq))

\* a window clamped on the right and cut on the left: '...' in front only
C11_Witness ==
    /\ pc = "windowed"
    /\ pos # None
    /\ primer_len >= 1
    /\ Val(pos) - flank > 0
    /\ Val(pos) + primer_len + flank > Len(seq)
    /\ WindowPrefix = Ellipsis
    /\ WindowSuffix = <<>>

\* a window clamped on the left and cut on the right: '...' behind only
C11_WitnessRight ==
    /\ pc = "windowed"
    /\ pos # None
    /\ primer_len >= 1
    /\ Val(pos) - flank < 0
    /\ Val(pos) + primer_len + flank < Len(seq)
    /\ WindowPrefix = <<>>
    /\ WindowSuffix = Ellipsis

\* C12: with position None window_sequence returns (None, None, None) for
\* every template, match length and flank; render_windowed_line on that
\* window and render_binding_line on that position both return the literal
\* 'No binding site found.'
C12_NoMatch ==
    pos = None =>
        /\ pc \in {"windowed", "rendered", "drawn"} =>
              window = <<None, None, None>>
        /\ pc \in {"rendered", "drawn"} => line = NoBindingSite
        /\ pc = "drawn" => binding_line = NoBindingSite

\* no match in a non-empty template, for a non-empty primer and a flank
C12_Witness ==
    /\ pc = "drawn"
    /\ pos = None
    /\ Len(seq) >= 1
    /\ primer_len >= 1
    /\ flank >= 1
    /\ line = NoBindingSite
    /\ binding_line = NoBindingSite

\* ------------------------------------------------ properties of the cleaners
\* the capital of each small letter typed
Capital == [c \in {"a", "c", "g", "t", "n", "x"} |->
               CASE c = "a" -> "A" [] c = "c" -> "C" [] c = "g" -> "G"
                 [] c = "t" -> "T" [] c = "n" -> "N" [] c = "x" -> "X"]

\* the text without its blanks and in capitals, read off character by character
RECURSIVE Normalized(_)
Normalized(text) ==
    IF text = <<>> THEN <<>>
    ELSE LET c == Head(text)
         IN  IF c \in {" ", "\t", "\n"} THEN Normalized(Tail(text))
             ELSE <<IF c \in DOMAIN Capital THEN Capital[c] ELSE c>>
                      \o Normalized(Tail(text))

\* the characters of the normalized text outside the alphabet
Offending(text) ==
    {Normalized(text)[i] : i \in 1..Len(Normalized(text))} \ {"A", "C", "G", "T", "N"}

\* the characters an error message lists after its heading
Listed(message) ==
    SelectSeq(Tail(message), LAMBDA c : c \notin {",", " "})

\* the message lists every offending character once, in ascending order, the
\* items separated by ', '
ListsOffending(message, text) ==
    /\ Head(message) = "Sequence contains invalid characters: "
    /\ {Listed(message)[i] : i \in 1..Len(Listed(message))} = Offending(text)
    /\ \A i, j \in 1..Len(Listed(message)) :
          i < j => CodePoint(Listed(message)[i]) < CodePoint(Listed(message)[j])
    /\ Len(message) = 1 + (IF Offending(text) = {} THEN 0
                           ELSE 3 * Cardinality(Offending(text)) - 2)

\* the parts of C13 the empty text does not touch: the two calls of the test,
\* and the cleaned text handed back in
SanitizeExamples ==
    /\ raw = SanTestNormalizes => sanitized = Returns(<<"A", "C", "G", "T", "N">>)
    /\ raw = SanTestInvalid =>
          sanitized = Raises(<<"Sequence contains invalid characters: ", "X">>)
    /\ pc \notin {"input", "sanitized"} /\ ~sanitized.raised =>
          resanitized = sanitized

\* C13 as stated: sanitize_sequence(raw) removes every whitespace character
\* and uppercases; it returns the cleaned text iff all of its characters are
\* in the allowed alphabet, and otherwise fails with an error listing every
\* distinct offending character exactly once, in sorted order; applied to its
\* own output it returns the same string.
C13_SanitizeAllValid ==
    pc # "input" =>
        /\ ~sanitized.raised <=> Offending(raw) = {}
        /\ ~sanitized.raised => sanitized.value = Normalized(raw)
        /\ sanitized.raised => ListsOffending(sanitized.message, raw)
        /\ SanitizeExamples

\* C13, amended: sanitize_sequence(raw) removes every whitespace character
\* and uppercases; it returns the cleaned text iff that text is non-empty and
\* all of its characters are in the allowed alphabet; when the cleaned text
\* has a character outside the alphabet it fails with an error listing every
\* distinct offending character exactly once, in sorted order; applied to its
\* own output it returns the same string.
C13_SanitizeNonEmptyValid ==
    pc # "input" =>
        /\ ~sanitized.raised <=>
              (Normalized(raw) # <<>> /\ Offending(raw) = {})
        /\ ~sanitized.raised => sanitized.value = Normalized(raw)
        /\ Offending(raw) # {} =>
              /\ sanitized.raised
              /\ ListsOffending(sanitized.message, raw)
        /\ SanitizeExamples

\* a text with inner blanks and small letters, cleaned and handed back in
C13_Witness ==
    /\ pc = "resanitized"
    /\ Len(raw) <= MaxRawLen
    /\ Len(sanitized.value) = 2
    /\ raw[2] = " "
    /\ raw # sanitized.value
    /\ resanitized.value = sanitized.value

\* a text with the same offending letter in both cases and a lesser one after
C13_WitnessSorted ==
    /\ pc = "sanitized"
    /\ sanitized.raised
    /\ Offending(raw) = {"1", "X"}
    /\ raw[1] = "x"
    /\ Len(raw) = 3
    /\ Listed(sanitized.message) = <<"1", "X">>

\* C14: whenever the cleaned result is empty (raw empty or only whitespace),
\* sanitize_sequence and clean_sequence_value fail with the empty-input
\* error, distinct from the invalid-character error, while
\* clean_optional_sequence_value returns the empty string without failing.
C14_EmptyInput ==
    Normalized(raw) = <<>> =>
        /\ pc # "input" =>
              /\ sanitized.raised
              /\ sanitized.message = <<"No sequence provided.">>
        /\ pc \in {"cleaned", "cleaned_optional"} =>
              /\ required_value.raised
              /\ required_value.message # MayOnlyContain(allow_n)
        /\ pc = "cleaned_optional" => optional_value = Returns(<<>>)

\* ------------------------------------------------- properties of the loader
\* C15: load_sequences fails for every format tag other than 'fasta' and
\* 'genbank', at the call and before any record is read, so
\* analyze_primer_binding on such a file returns no hit list at all (and the
\* task has nothing to serialize).
C15_UnsupportedFormat ==
    /\ pc # "input" =>
          (pc = "raised" <=> sequence_file.file_type \notin {"fasta", "genbank"})
    /\ pc = "raised" => results = <<>> /\ payload = <<>>
    /\ sequence_file.file_type \notin {"fasta", "genbank"} =>
          load_sequences(sequence_file.records, sequence_file.file_type).raised

\* the call fails on a file whose records hold a binding site
C15_Witness ==
    /\ pc = "raised"
    /\ sequence_file.file_type = "FASTA"
    /\ Len(sequence_file.records) = 2
    /\ analyze_primer_binding(primer_sequence, Typed(sequence_file, "fasta"),
                              max_mismatches, block_3prime_mismatch).hits # <<>>

\* ------------------------------------------ properties of the binding task
Terminal == {"SUCCESS", "FAILURE"}

\* the serialized hit carries the five values of the hit
SameHit(entry, hit) ==
    /\ entry.record_id = hit_record_id(hit)
    /\ entry.start = hit_start(hit)
    /\ entry.end = hit_end(hit)
    /\ entry.strand = hit_strand(hit)
    /\ entry.mismatches = hit_mismatches(hit)

\* the last request was the synchronous analysis of this primer and file, and
\* it rendered its hits
ViewRendered(primer_id, sequence_file_id) ==
    /\ request.view = "primer_binding_analysis"
    /\ request.method = "POST"
    /\ request.primer_id = primer_id
    /\ request.sequence_file_id = sequence_file_id
    /\ response.status = 200

\* C16: for the same primer and sequence file (rows are never edited, so
\* they are unchanged between submission and execution whenever both the
\* task and the view found them), the result of the task submitted by
\* primer_binding_analysis_async is the serialization, hit for hit and in the
\* same order, of the hit list the synchronous view computes.
C16_TaskMatchesView ==
    \A t \in 1..Len(tasks) :
        (tasks[t].state = "SUCCESS"
            /\ ViewRendered(tasks[t].primer_id, tasks[t].sequence_file_id)) =>
            LET result == Val(tasks[t].result)
                view_hits == response.body.hits
            IN  /\ Len(result) = Len(view_hits)
                /\ \A n \in 1..Len(result) : SameHit(result[n], view_hits[n])

\* a task and the view agree on a list with a mismatching hit on each strand
C16_Witness ==
    /\ Len(tasks) >= 1
    /\ tasks[1].state = "SUCCESS"
    /\ ViewRendered(tasks[1].primer_id, tasks[1].sequence_file_id)
    /\ Len(response.body.hits) >= 4
    /\ \E n \in 1..Len(response.body.hits) :
          hit_mismatches(response.body.hits[n]) = 1

\* what a finished task holds, and what the status view answers
TaskOutcomes ==
    \A t \in 1..Len(tasks) :
        /\ tasks[t].state = "FAILURE" =>
              /\ tasks[t].result = None
              /\ tasks[t].info \in
                    {Some(<<"Primer or sequence file not found.">>)}
                        \cup {Some(<<"Unsupported file type: ", ft>>) : ft \in {"txt"}}
        /\ tasks[t].state = "SUCCESS" =>
              /\ tasks[t].result # None
              /\ tasks[t].info = None

StatusAnswers ==
    (pc = "status" /\ request.task_id \in 1..Len(tasks)) =>
        LET task == tasks[request.task_id]
        IN  /\ task.state = "FAILURE" =>
                  /\ response.status = 500
                  /\ DOMAIN response.body = {"state", "error"}
                  /\ response.body.state = "FAILURE"
                  /\ response.body.error = Val(task.info)
            /\ task.state = "SUCCESS" =>
                  /\ response.status = 200
                  /\ DOMAIN response.body = {"state", "result"}
                  /\ response.body.state = "SUCCESS"
                  /\ response.body.result = Val(task.result)

\* the submitting request got 202 and the id of a task that has not run
SubmitAnswers ==
    (pc = "submit" /\ response.status = 202) =>
        /\ DOMAIN response.body = {"task_id"}
        /\ tasks[response.body.task_id].state = "PENDING"

\* a step that ends a task: it fails when a row is gone or the file type is
\* not supported, succeeds otherwise, and answers no request
TaskEnds(t) ==
    (tasks[t].state = "PENDING" /\ tasks'[t].state # "PENDING") =>
        /\ request' = request
        /\ response' = response
        /\ IF primers[tasks[t].primer_id] = None
                \/ files[tasks[t].sequence_file_id] = None
           THEN /\ tasks'[t].state = "FAILURE"
                /\ tasks'[t].info = Some(<<"Primer or sequence file not found.">>)
           ELSE IF Val(files[tasks[t].sequence_file_id]).file_type
                       \notin {"fasta", "genbank"}
           THEN /\ tasks'[t].state = "FAILURE"
                /\ tasks'[t].info = Some(<<"Unsupported file type: ", "txt">>)
           ELSE tasks'[t].state = "SUCCESS"

\* C17: a failure inside a submitted binding task (a primer or sequence file
\* deleted between submission and execution, an unsupported file type) is
\* never raised to the submitting request, which has already returned 202
\* with a task id; it puts the task in the failed state, and
\* primer_binding_status then reports that state with an error message
\* string and no result, while a succeeded task reports the serialized hit
\* list and no error.
C17_FailureReported ==
    /\ [](TaskOutcomes /\ StatusAnswers /\ SubmitAnswers)
    /\ [][\A t \in 1..Len(tasks) : TaskEnds(t)]_vars

\* the status of a task that failed because its primer was deleted, polled
\* next to a task that succeeded
C17_Witness ==
    /\ pc = "status"
    /\ Len(tasks) = 2
    /\ request.task_id = 1
    /\ tasks[1].info = Some(NotFound)
    /\ response.status = 500
    /\ tasks[2].state = "SUCCESS"

\* a task that failed on the type of its file
C17_WitnessType ==
    /\ pc = "status"
    /\ request.task_id \in 1..Len(tasks)
    /\ tasks[request.task_id].info = Some(UnsupportedFileType("txt"))
    /\ response.status = 500

\* no step takes a task away, takes a finished task back, or changes what a
\* task was asked to do
NoCancel ==
    \A t \in 1..Len(tasks) :
        /\ t <= Len(tasks')
        /\ \/ tasks'[t] = tasks[t]
           \/ /\ tasks[t].state = "PENDING"
              /\ tasks'[t].state \in Terminal
              /\ tasks'[t].primer_id = tasks[t].primer_id
              /\ tasks'[t].sequence_file_id = tasks[t].sequence_file_id

\* C18: every submitted binding-analysis task eventually reaches a terminal
\* state (succeeded or failed) under a fair worker, whether or not the caller
\* ever polls; no operation of the views or the task cancels or aborts it
\* once submitted.
C18_TasksTerminate ==
    /\ \A t \in 1..MaxTasks :
          (t <= Len(tasks)) ~> (t <= Len(tasks) /\ tasks[t].state \in Terminal)
    /\ [][NoCancel]_vars

\* two tasks, one failed and one succeeded, and no status request so far
\* answered since the last submission
C18_Witness ==
    /\ pc = "worker"
    /\ Len(tasks) = 2
    /\ tasks[1].state = "FAILURE"
    /\ tasks[2].state = "SUCCESS"
    /\ request.view = "primer_binding_analysis_async"
    /\ response.status = 202

\* C19: polling primer_binding_status changes nothing: the task state, the
\* task result and the persisted primers, sequence files and hits are as
\* before, and two polls of the same task id with no
\* worker step in between return identical responses.
C19_PollingIsPure ==
    [][pc' = "status" =>
          /\ tasks' = tasks
          /\ primers' = primers
          /\ files' = files
          /\ binding_results' = binding_results
          /\ (pc = "status" /\ request' = request) => response' = response]_vars

\* a succeeded task's status, just polled
C19_Witness ==
    /\ pc = "status"
    /\ request.task_id \in 1..Len(tasks)
    /\ tasks[request.task_id].state = "SUCCESS"
    /\ response.status = 200
    /\ response.body.result = Val(tasks[request.task_id].result)
    /\ Len(response.body.result) >= 1

\* ------------------------------------- properties of side-by-side invocations
\* what the invocation's call returns when nothing else runs
Alone(c) ==
    analyze_primer_binding(frames[c].call.primer_sequence,
                           frames[c].call.sequence_file,
                           frames[c].call.max_mismatches,
                           frames[c].call.block_3prime_mismatch)

Returned(c) == frames[c].at = "returned"

\* C20: two invocations of analyze_primer_binding interleaved in any order,
\* each with its own mismatch-count buffer and hit list, return exactly the
\* lists each returns when run alone (and raise exactly when it raises alone),
\* and two invocations with equal primer, records and parameters return equal
\* lists
C20_CallsIndependent ==
    /\ \A c \in Invocations :
          /\ frames[c].at = "raised" => Alone(c).raised
          /\ Returned(c) =>
                /\ ~Alone(c).raised
                /\ hit_lists[ResultsOf(c)] = Alone(c).hits
    /\ \A c, d \in Invocations :
          (Returned(c) /\ Returned(d) /\ frames[c].call = frames[d].call)
             => hit_lists[ResultsOf(c)] = hit_lists[ResultsOf(d)]

\* both invocations have returned, on different inputs, a list with hits
C20_Witness ==
    /\ Returned(1) /\ Returned(2)
    /\ frames[1].call # frames[2].call
    /\ hit_lists[ResultsOf(1)] # <<>>
    /\ hit_lists[ResultsOf(2)] # <<>>

\* both invocations have returned, on equal inputs, a list with several hits
C20_WitnessEqual ==
    /\ Returned(1) /\ Returned(2)
    /\ frames[1].call = frames[2].call
    /\ Len(hit_lists[ResultsOf(1)]) > 1

\* both invocations are in the middle of a count, each with mismatches in
\* its buffer
C20_WitnessMidway ==
    \A c \in Invocations :
        /\ frames[c].at = "count"
        /\ frames[c].offset > 0
        /\ \E index \in 1..Len(mismatch_buffers[BufferOf(c)]) :
              mismatch_buffers[BufferOf(c)][index] > 0

\* ------------------------------------- properties of the exact-match locator
\* C29: for every template and non-empty primer, find_binding_site is None
\* exactly when scan_sequence(T, P, '+', max_mismatches=0) is empty, and
\* otherwise it is the start of the first hit of that scan, the lowest
\* exact-match offset; the repository's test gives 2 for ACC in AAACCC and
\* None for GGG
C29_LocatorAgreesWithScanner ==
    pc = "compared" =>
        /\ binding_site = None <=> hits = <<>>
        /\ hits # <<>> =>
              /\ Val(binding_site) = hit_start(hits[1])
              /\ Val(binding_site) \in ExactOffsets(sequence, primer)
              /\ \A i \in ExactOffsets(sequence, primer) : Val(binding_site) <= i
        /\ FindTestCalls =>
              binding_site = IF primer[1] = "A" THEN Some(2) ELSE None

\* the primer occurs more than once, and the locator and the scanner have run
C29_Witness ==
    /\ pc = "compared"
    /\ Len(hits) > 1
    /\ binding_site # None

\* the primer does not occur, and the locator and the scanner have run
C29_WitnessNone ==
    /\ pc = "compared"
    /\ Len(sequence) >= Len(primer)
    /\ binding_site = None

\* ---------------------------------------- properties of the 3' rule per strand
\* the upper-cased template a hit was found in
TemplateOf(hit) == upper(sequence_file.records[RecordOf(hit)].seq)

\* C26: with block_3prime_mismatch on, no hit of analyze_primer_binding has a
\* mismatch at the 3'-terminal base of the primer as passed in: a '+' hit has
\* template[end-1] = primer[-1], and a '-' hit has the base paired with the
\* primer's 3' end matching, template[start] = complement(primer[-1])
C26_ThreePrimeBothStrands ==
    (pc = "returned" /\ block_3prime_mismatch) =>
        \A n \in 1..Len(results) :
            LET hit == results[n]
                three_prime == Index(upper(primer_sequence), -1)
            IN  /\ hit_strand(hit) = "+" =>
                      Index(TemplateOf(hit), hit_end(hit) - 1) = three_prime
                /\ hit_strand(hit) = "-" =>
                      Index(TemplateOf(hit), hit_start(hit)) = complement(three_prime)

\* --------------------------------------------- properties of repeated hits
Palindromic == reverse_complement(upper(primer_sequence)) = upper(primer_sequence)

DistinctIds ==
    \A a, b \in 1..Len(sequence_file.records) :
        a # b => sequence_file.records[a].id # sequence_file.records[b].id

\* the same site on the other strand
Flipped(hit) ==
    PrimerBindingHit(hit_record_id(hit), hit_start(hit), hit_end(hit),
                     IF hit_strand(hit) = "+" THEN "-" ELSE "+", hit_mismatches(hit))

SameTriple(a, b) ==
    /\ hit_record_id(a) = hit_record_id(b)
    /\ hit_start(a) = hit_start(b)
    /\ hit_strand(a) = hit_strand(b)

\* how often a hit's (record_id, start, strand) occurs in the result
Occurrences(hit) ==
    Cardinality({n \in 1..Len(results) : SameTriple(results[n], hit)})

\* for a primer equal to its reverse complement every hit has its twin on the
\* other strand, as often as the hit itself occurs
TwinsOfPalindromes ==
    Palindromic =>
        \A n \in 1..Len(results) :
            Occurrences(Flipped(results[n])) = Occurrences(results[n])
            /\ \E m \in 1..Len(results) : results[m] = Flipped(results[n])

\* C30 as stated: for a primer equal to its reverse complement every accepted
\* site of every record is reported twice, once '+' and once '-', with the
\* same record_id, start, end and mismatches; for any other primer a
\* (record_id, start, strand) triple occurs at most once in the result
C30_TwiceOrOnce ==
    pc = "returned" =>
        /\ TwinsOfPalindromes
        /\ ~Palindromic =>
              \A n \in 1..Len(results) : Occurrences(results[n]) = 1

\* C30, amended: the twins as stated; a (record_id, start, strand) triple
\* occurs at most once when the records of the file have identifiers of
\* their own, whether or not the primer equals its reverse complement
C30_TwiceOrOncePerRecord ==
    pc = "returned" =>
        /\ TwinsOfPalindromes
        /\ DistinctIds =>
              \A n \in 1..Len(results) : Occurrences(results[n]) = 1

\* a primer equal to its reverse complement with an accepted site, reported
\* on both strands
C30_Witness ==
    /\ pc = "returned"
    /\ Palindromic
    /\ DistinctIds
    /\ \E a, b \in 1..Len(results) :
          /\ hit_strand(results[a]) = "+"
          /\ results[b] = Flipped(results[a])

\* another primer, with a hit on each strand
C30_WitnessOther ==
    /\ pc = "returned"
    /\ ~Palindromic
    /\ DistinctIds
    /\ \E a, b \in 1..Len(results) :
          hit_strand(results[a]) = "+" /\ hit_strand(results[b]) = "-"

\* ------------------------------------------ properties of the access checks
\* the request being handled in this step is a binding analysis posted to
\* the synchronous view or to the submitting view
AnalysisPosted ==
    /\ pc' \in {"submit", "analysis"}
    /\ request'.method = "POST"

\* the rows the request refers to, as stored when the request arrives
Entitled ==
    /\ primers[request'.primer_id] # None
    /\ request'.user \in Val(primers[request'.primer_id]).users
    /\ files[request'.sequence_file_id] # None
    /\ Val(files[request'.sequence_file_id]).uploaded_by = request'.user

Scanned == "hits" \in DOMAIN response'.body

\* C23: a binding analysis (synchronous view or asynchronous submission) is
\* run only when the primer exists with the requesting user in its access set
\* and the sequence file exists and was uploaded by the requesting user;
\* otherwise the request ends in not found, no scan is executed and no task
\* is submitted
C23_AccessChecked ==
    [][AnalysisPosted =>
          IF Entitled
          THEN \/ pc' = "submit" /\ response'.status = 202
                     /\ Len(tasks') = Len(tasks) + 1
               \/ pc' = "analysis" /\ response'.status \in {200, 500}
                     /\ (response'.status = 200 => Scanned)
          ELSE /\ response' = Http404
               /\ tasks' = tasks
               /\ ~Scanned]_vars

\* a user outside the access set of a stored primer has posted a submission
\* for a file of their own and got not found
C23_Witness ==
    /\ pc = "submit"
    /\ request.method = "POST"
    /\ primers[request.primer_id] # None
    /\ request.user \notin Val(primers[request.primer_id]).users
    /\ files[request.sequence_file_id] # None
    /\ Val(files[request.sequence_file_id]).uploaded_by = request.user
    /\ response = Http404

\* a user in the access set has posted an analysis of another user's file
C23_WitnessFile ==
    /\ pc = "analysis"
    /\ request.method = "POST"
    /\ primers[request.primer_id] # None
    /\ request.user \in Val(primers[request.primer_id]).users
    /\ files[request.sequence_file_id] # None
    /\ Val(files[request.sequence_file_id]).uploaded_by # request.user
    /\ response = Http404

\* an entitled user has posted an analysis and got the hits
C23_WitnessRun ==
    /\ pc = "analysis"
    /\ request.method = "POST"
    /\ response.status = 200
    /\ response.body.hits # <<>>

\* ------------------------------------------------- properties of deletion
\* the primers that a step removes from the table
Removed == {id \in 1..Len(primers) : primers[id] # None /\ primers'[id] = None}

\* the stored primers among the given ids that the user created
CreatedBy(user, ids) ==
    {id \in ids : id <= Len(primers) /\ primers[id] # None
                  /\ Val(primers[id]).creator = user}

\* every primer outside the given ids is stored after the step as before
OthersKept(ids) ==
    \A id \in (1..Len(primers)) \ ids : primers'[id] = primers[id]

\* C25: a primer is removed only by its creator. primer_delete by the creator
\* removes the primer, primer_delete by another user answers 403 and leaves
\* the table as it was, and delete_selected_primers removes exactly the
\* selected primers that the requester created; every other primer is
\* stored unchanged, and no other view removes a primer.
C25_OnlyCreatorDeletes ==
    [][/\ \A id \in Removed :
             /\ request'.view \in {"primer_delete", "delete_selected_primers"}
             /\ Val(primers[id]).creator = request'.user
       /\ (/\ request'.view = "primer_delete"
           /\ CreatedBy(request'.user, {request'.primer_id}) # {})
          => /\ Removed = {request'.primer_id}
             /\ OthersKept(Removed)
       /\ (/\ request'.view = "primer_delete"
           /\ request'.primer_id <= Len(primers)
           /\ primers[request'.primer_id] # None
           /\ Val(primers[request'.primer_id]).creator # request'.user)
          => /\ response'.status = 403
             /\ primers' = primers
       /\ (/\ request'.view = "delete_selected_primers"
           /\ request'.method = "POST")
          => /\ Removed = CreatedBy(request'.user, request'.primer_ids)
             /\ OthersKept(Removed)
       /\ (/\ request'.view = "delete_selected_primers"
           /\ request'.method # "POST")
          => primers' = primers]_vars

\* a selection holding a primer of the requester and a primer of another
\* user was posted: the first is gone, the second is still stored
C25_Witness ==
    /\ request.view = "delete_selected_primers"
    /\ request.method = "POST"
    /\ response.status = 302
    /\ \E mine, other \in request.primer_ids :
          /\ mine <= Len(primers) /\ other <= Len(primers)
          /\ primers[mine] = None
          /\ primers[other] # None
          /\ Val(primers[other]).creator # request.user

\* primer_delete by a user who did not create the primer was refused
C25_WitnessRefused ==
    /\ request.view = "primer_delete"
    /\ response.status = 403
    /\ request.primer_id <= Len(primers)
    /\ primers[request.primer_id] # None
    /\ Val(primers[request.primer_id]).creator # request.user

\* primer_delete by the creator removed the primer and left another one
C25_WitnessDeleted ==
    /\ request.view = "primer_delete"
    /\ response.status = 302
    /\ request.primer_id <= Len(primers)
    /\ primers[request.primer_id] = None
    /\ \E id \in 1..Len(primers) : primers[id] # None

\* ------------------------------------------ properties of the stored rows
\* the Primer rows of the table
PrimerRows == {Val(primers[id]) : id \in {i \in 1..Len(primers) : primers[i] # None}}

\* C21: the sequence of every stored Primer holds only the unambiguous bases
\* A, C, G, T in upper case, whichever view stored the row: the primer form,
\* the Excel import, the combined primer-pair form or the saving of a
\* generated primer pair.
C21_OnlyUnambiguousBases ==
    \A row \in PrimerRows :
        \A i \in 1..Len(row.sequence) : row.sequence[i] \in {"A", "C", "G", "T"}

\* the derived columns of a row are the ones computed from its sequence
Analysed(row) ==
    LET analysis == analyze_primer(row.sequence)
    IN  /\ ~analysis.raised
        /\ row.length = Some(Len(row.sequence))
        /\ row.gc_content = Some(analysis.value.gc_content)
        /\ row.tm = Some(analysis.value.tm)
        /\ row.hairpin_dg = Some(analysis.value.hairpin_dg)
        /\ row.self_dimer_dg = Some(analysis.value.self_dimer_dg)

\* C22: every stored Primer has length = len(sequence), and its gc_content,
\* tm, hairpin_dg and self_dimer_dg are the values computed from its current
\* sequence, never null and never stale, also after a creation request that
\* failed part-way.
C22_DerivedValuesCurrent == \A row \in PrimerRows : Analysed(row)

\* the request of the step is one of the two that store a pair with its primers
SavesPair ==
    /\ request'.view \in {"save_generated_primerpair", "primerpair_combined_create"}
    /\ request'.method = "POST"

\* C28: saving a primer pair with its two primers is all-or-nothing: after
\* the request either the forward primer, the reverse primer and the pair
\* are all stored, or none of the three is.
C28_AllOrNothing ==
    [][SavesPair =>
          \/ /\ Len(primers') = Len(primers) + 2
             /\ Len(pairs') = Len(pairs) + 1
             /\ pairs'[Len(pairs')] # None
             /\ Val(pairs'[Len(pairs')]).forward_primer = Len(primers) + 1
             /\ Val(pairs'[Len(pairs')]).reverse_primer = Len(primers) + 2
          \/ /\ primers' = primers
             /\ pairs' = pairs]_vars

\* ---------------------------------------------- properties of the design
\* how many pairs, left primers and right primers the engine returned
PairCount == get_count(raw_results.PRIMER_PAIR_NUM_RETURNED)
LeftCount == get_count(raw_results.PRIMER_LEFT_NUM_RETURNED)
RightCount == get_count(raw_results.PRIMER_RIGHT_NUM_RETURNED)

\* C24: analyze_sequence tags its result by mode with fixed priority: PAIR
\* when the engine returned a pair, else LEFT when it returned a left primer,
\* else RIGHT when it returned a right primer, else NONE; the list has as
\* many entries as the engine counted of the chosen kind, every entry
\* carries the mode of the list, and the list is empty exactly when the mode
\* is NONE.
C24_ModeByPriority ==
    pc = "analysed" =>
        /\ (PairCount > 0) => (mode = "PAIR" /\ Len(primer_list) = PairCount)
        /\ (PairCount = 0 /\ LeftCount > 0) =>
              (mode = "LEFT" /\ Len(primer_list) = LeftCount)
        /\ (PairCount = 0 /\ LeftCount = 0 /\ RightCount > 0) =>
              (mode = "RIGHT" /\ Len(primer_list) = RightCount)
        /\ (PairCount = 0 /\ LeftCount = 0 /\ RightCount = 0) => mode = "NONE"
        /\ \A i \in 1..Len(primer_list) : primer_list[i].mode = mode
        /\ (primer_list = <<>>) <=> (mode = "NONE")

\* the engine returned a pair and single primers of both sides: PAIR wins
C24_Witness ==
    /\ pc = "analysed"
    /\ PairCount > 0 /\ LeftCount > 0 /\ RightCount > 0
    /\ mode = "PAIR"
    /\ Len(primer_list) = PairCount

\* left and right primers without a pair: LEFT wins
C24_WitnessLeft ==
    /\ pc = "analysed"
    /\ PairCount = 0 /\ LeftCount > 0 /\ RightCount > 0
    /\ mode = "LEFT"

\* right primers only, and nothing at all
C24_WitnessRight ==
    /\ pc = "analysed"
    /\ PairCount = 0 /\ LeftCount = 0 /\ RightCount > 0
    /\ mode = "RIGHT"

C24_WitnessNone ==
    /\ pc = "analysed"
    /\ mode = "NONE"
    /\ primer_list = <<>>

\* the primer occurs verbatim in the template
Occurs(template, prim) ==
    \E offset \in 0..(Len(template) - Len(prim)) :
        SubSeq(template, offset + 1, offset + Len(prim)) = prim

\* the request reached the engine: a valid POST with a template and a side
Designed ==
    /\ pc = "rendered"
    /\ request_method = "POST"
    /\ form_valid
    /\ ~sanitize_sequence(raw_seq).raised
    /\ primer_sides # {}

\* the sequences that the view looks for in the template, one candidate
Sought(p) ==
    IF p.mode = "PAIR"
    THEN {upper(Val(p.left_seq)), reverse_complement(upper(Val(p.right_seq)))}
    ELSE IF p.mode = "RIGHT" THEN {reverse_complement(upper(Val(p.seq)))}
    ELSE {upper(Val(p.seq))}

\* the candidates with a sequence that is not in the sanitized template
Unbound ==
    {i \in 1..Len(primer_list) :
        \E prim \in Sought(primer_list[i]) :
            ~Occurs(sanitize_sequence(raw_seq).value, prim)}

\* C27: when a designed primer (for a right primer, its reverse complement)
\* does not occur in the sanitized template, analyze_sequence_view still
\* completes: no exception is raised, and the entry gets a null position and
\* the line 'No binding site found.'.
C27_UnboundCompletes ==
    (Designed /\ Unbound # {}) =>
        /\ ~Val(rendered).raised
        /\ \A i \in Unbound :
              IF primer_list[i].mode = "PAIR"
              THEN \/ /\ primer_list[i].forward_pos = None
                      /\ primer_list[i].forward_window_line = NoBindingSite
                   \/ /\ primer_list[i].reverse_pos = None
                      /\ primer_list[i].reverse_window_line = NoBindingSite
              ELSE /\ primer_list[i].pos = None
                   /\ primer_list[i].window_line = NoBindingSite

====
